---- MODULE Spec2Model ----
(***************************************************************************)
(* Verification model of the GigE-Vision and Mitsubishi-MC emulator cores. *)
(*                                                                         *)
(* The module holds several specifications, one per subsystem, over one    *)
(* set of variables; each specification leaves the other subsystems'       *)
(* variables unchanged:                                                    *)
(*   SpecGvsp  GVSP sender (_send_image) and stream receiver               *)
(*   SpecMc    MC server: request parsing, dispatch, device store          *)
(***************************************************************************)
EXTENDS Integers, Sequences, FiniteSets, TLC

(***************************************************************************)
(* Generic helpers                                                         *)
(***************************************************************************)
None == <<>>

Some(x) == <<x>>

Min(a, b) == IF a < b THEN a ELSE b

\* The one element of a singleton set; {F(v) : v \in {e}} computes e once and
\* names its value v, as an assignment to a local variable does.
The(S) == CHOOSE x \in S : TRUE

\* Python slice s[lo:hi] on a sequence, 0-based, clamped to the length.
Slice(s, lo, hi) ==
    LET h == Min(hi, Len(s))
    IN IF lo >= h THEN <<>> ELSE [i \in 1..(h - lo) |-> s[lo + i]]

\* mutant: descending enumeration
RECURSIVE SortedSeqDesc(_)
SortedSeqDesc(S) ==
    IF S = {} THEN <<>>
    ELSE LET m == CHOOSE x \in S : \A y \in S : x >= y
         IN <<m>> \o SortedSeqDesc(S \ {m})

\* Ascending enumeration of a finite set of integers (Python sorted()).
RECURSIVE SortedSeq(_)
SortedSeq(S) ==
    IF S = {} THEN <<>>
    ELSE LET m == CHOOSE x \in S : \A y \in S : x <= y
         IN <<m>> \o SortedSeq(S \ {m})

(***************************************************************************)
(* GVSP: bounds and protocol constants                                     *)
(***************************************************************************)
\* largest image width (pixels per row) drawn for a frame
MaxWidth == 2

\* largest payload chunk: packet_size ranges over 9 .. 8 + MaxChunk
MaxChunk == 2

\* number of frames the sender emits
MaxBlocks == 2

GVSP_HEADER_SIZE == 8

DATA_LEADER == 1

DATA_TRAILER == 2

DATA_PAYLOAD == 3

PIXEL_MONO8 == 17301505

PIXEL_BGR8 == 35127317

PixelVals == {0, 1}

PacketSizes == (GVSP_HEADER_SIZE + 1)..(GVSP_HEADER_SIZE + MaxChunk)

\* numpy uint8 arrays: shape (h, w) or (h, w, 3) and the bytes of tobytes()
ImageShapes == {<<1, w>> : w \in 1..MaxWidth} \cup {<<1, 1, 3>>}

RECURSIVE Product(_)
Product(s) == IF s = <<>> THEN 1 ELSE Head(s) * Product(Tail(s))

Images ==
    UNION {{[shape |-> sh, bytes |-> d] : d \in [1..Product(sh) -> PixelVals]}
           : sh \in ImageShapes}

VARIABLES
    packet_size,        \* MockCameraConfig.packet_size
    block_id,           \* GigEMockServer._block_id
    net,                \* GVSP datagrams in flight to the receiver
    current_block_id,   \* GigEVisionClient._current_block_id
    packet_buffer,      \* GigEVisionClient._packet_buffer: packet_id -> bytes
    image_buffer,       \* GigEVisionClient._image_buffer: None or an array
    image_ready,        \* GigEVisionClient._image_ready (Event)
    sent_image,         \* history: the image of the frame last sent
    rx_log              \* history: packets of that frame received so far

gvspVars == <<packet_size, block_id, net, current_block_id, packet_buffer,
              image_buffer, image_ready, sent_image, rx_log>>

VARIABLES
    series,             \* MockPLCServer.series
    running,            \* MockPLCServer._running
    memory,             \* PLCDeviceManager._memory: device code -> address -> value
    plc_state,          \* MockPLCServer.state
    ladder_running,     \* LadderEngine.is_running
    request,            \* bytes of the request handled last
    response,           \* bytes answered to it
    memory_before,      \* history: the store before that request
    state_before,       \* history: plc_state and ladder_running before it
    handled             \* number of requests handled

mcVars == <<series, running, memory, plc_state, ladder_running, request, response,
            memory_before, state_before, handled>>

VARIABLES
    programs,           \* LadderEngine.programs
    timers,             \* LadderEngine.timers: None, or the TimerState of T0
    scan_count,         \* LadderEngine.scan_count
    scan_pc,            \* scan thread: the store access it makes next
    scan_current,       \* scan thread: current of _execute_program
    scan_v1,            \* scan thread: v1 of the ADD branch
    scan_v2,            \* scan thread: v2 of the ADD branch
    scan_view,          \* history: the store at the scan thread's last access
    req_pc,             \* handler thread: next word of a word write to bits
    req_words,          \* handler thread: the words of that write
    req_view,           \* history: the store at the handler's last access
    counters,           \* LadderEngine.counters: None, or the CounterState of C0
    seen,               \* history: <<X0, X1>> as read by each scan, repeats dropped
    held_since,         \* history: None, or when the scans began to read X0 true
    prev_bits           \* LadderEngine._prev_bits: the devices remembered as True

\* engine state that only whole scans and the reset touch
engineVars == <<counters, seen, held_since, prev_bits>>

scanVars == <<programs, timers, scan_count, scan_pc, scan_current, scan_v1,
              scan_v2, scan_view, req_pc, req_words, req_view, engineVars>>

VARIABLES
    now,                \* time.time(), in milliseconds
    control_privilege,  \* GigEMockServer._control_privilege
    last_heartbeat,     \* GigEMockServer._last_heartbeat, in milliseconds
    recv_start,         \* when the pending recvfrom of _handle_gvcp began
    cleared             \* history: None, or <<time, last_heartbeat>> of a clearing

hbVars == <<now, control_privilege, last_heartbeat, recv_start, cleared>>

VARIABLES
    config,             \* GigEMockCameraServer.config (MockCameraConfig)
    cam_running,        \* GigEMockCameraServer._running
    registers,          \* GigEMockCameraServer._registers: address -> value
    client_ip,          \* GigEMockCameraServer._client_ip: None or an address
    client_port,        \* GigEMockCameraServer._client_port
    streaming,          \* GigEMockCameraServer._streaming
    stream_thread,      \* GigEMockCameraServer._stream_thread: 0 (None) or a thread
    senders,            \* the _stream_loop threads started so far
    gvcp_pc,            \* control thread: "recv", "write" (loop of _handle_writereg) or "join"
    gvcp_req,           \* control thread: the datagram being handled, or handled last
    gvcp_i,             \* control thread: i of the loop of _handle_writereg
    join_start,         \* when the pending join of _stop_streaming began
    acks,               \* the Acks sent for gvcp_req
    gvcp_handled,       \* number of datagrams received
    frames_sent,        \* history: frames the sender threads have emitted
    quiet,              \* history: a stop has completed and no start followed
    cam_before          \* history: registers and side-effect state before gvcp_req

camVars == <<config, cam_running, registers, client_ip, client_port, streaming,
             stream_thread, senders, gvcp_pc, gvcp_req, gvcp_i, join_start, acks,
             gvcp_handled, frames_sent, quiet, cam_before>>

VARIABLES
    send_pc,            \* _send_image: "idle", or "payload" inside the payload loop
    send_image,         \* _send_image: image_data, width and height of the frame
    send_offset,        \* _send_image: offset
    send_packet_id,     \* _send_image: packet_id
    emitted             \* the datagrams of the frame handed to sendto, in order

sendVars == <<send_pc, send_image, send_offset, send_packet_id, emitted>>

VARIABLES
    sent_frames,        \* history: the image sent with each block_id, by block
    assembled,          \* history: None, or block and image of the frame last completed
    foreign_dropped     \* history: a Payload or Trailer of another block was received

mixVars == <<sent_frames, assembled, foreign_dropped>>

VARIABLES
    client_socket,      \* MockPLCServer._client_socket: None or Some(connection)
    backlog,            \* connections completed by the listening socket, not yet accepted
    peer,               \* each client's end: "idle", "connected", "requested" or "closed"
    inbox,              \* per connection: the request sent and not yet received
    outbox,             \* per connection: the responses sent on it
    serve_pc,           \* position of _server_loop: "loop" or "send"
    pending,            \* the response computed and the connection its request came from
    open_conns,         \* history: connections accepted and not yet closed by the server
    accept_log,         \* history: the connections in the order they were accepted
    queued_behind       \* history: connections queued while another was open

connVars == <<client_socket, backlog, peer, inbox, outbox, serve_pc, pending,
              open_conns, accept_log, queued_behind>>

VARIABLES
    stop_event,         \* LadderEngine._stop_event
    engine_thread,      \* LadderEngine._thread: None or Some(thread)
    scan_thread_pc,     \* each scan thread: "unborn", "test", "scan" or "dead"
    caller_pc,          \* the handler and the GUI thread inside start() or stop()
    engine_quiet,       \* history: a stop() has returned and no start() has begun since
    engine_calls        \* history: number of start() and stop() calls

threadVars == <<stop_event, engine_thread, scan_thread_pc, caller_pc, engine_quiet,
                engine_calls>>

VARIABLES
    client_serial_no,   \* PLCClient._serial_no
    client_connected,   \* PLCClient._connected
    client_pc,          \* the calling thread: "idle" or inside recv()
    sent_requests,      \* requests the server has not read yet, each with its call
    late_responses,     \* responses in the client socket's receive buffer
    client_response,    \* None or Some(what the last returning call evaluated)
    client_calls        \* history: number of calls made

plcClientVars == <<client_serial_no, client_connected, client_pc, sent_requests,
                   late_responses, client_response, client_calls>>

VARIABLES
    ctl_req_id,         \* GigEVisionClient._req_id
    ctl_pc,             \* the calling thread: "idle", "recv" or "discover"
    ctl_sent,           \* datagrams the camera has not received yet
    ctl_queue,          \* Acks queued on the client's GVCP socket
    ctl_result,         \* None or Some(what the last answered command went by)
    ctl_commands        \* history: number of commands sent

ctlVars == <<ctl_req_id, ctl_pc, ctl_sent, ctl_queue, ctl_result, ctl_commands>>

VARIABLES
    acq_images,         \* MockGigECamera.images, each by its number of bytes
    acq_index,          \* MockGigECamera.current_image_index
    acq_frame_id,       \* MockGigECamera.frame_id
    acq_pc,             \* acquisition thread: "loop", "sending" or "dead"
    srv_block_id,       \* GVSPServer.block_id
    srv_packet_id,      \* GVSPServer.packet_id
    srv_offset,         \* send_image: i of the chunk loop
    srv_length,         \* send_image: len(image_data)
    srv_sent            \* packets of the current block handed to _send_packet, by kind

acqVars == <<acq_images, acq_index, acq_frame_id, acq_pc, srv_block_id, srv_packet_id,
             srv_offset, srv_length, srv_sent>>

\* the variables of the later sections
extVars == <<threadVars, plcClientVars, ctlVars, acqVars>>

vars == <<gvspVars, mcVars, scanVars, hbVars, camVars, sendVars, mixVars, connVars, extVars>>

(***************************************************************************)
(* MC: integers on the wire                                                *)
(***************************************************************************)
RECURSIVE Pow2(_)
Pow2(n) == IF n = 0 THEN 1 ELSE 2 * Pow2(n - 1)

\* value & (1 << i) != 0
BitOf(value, i) == (value \div Pow2(i)) % 2 = 1

\* struct.pack('<H', v)
PackU16(v) == <<v % 256, (v \div 256) % 256>>

\* struct.pack('<I', v)[:3]
PackU24(v) == <<v % 256, (v \div 256) % 256, (v \div 65536) % 256>>

\* struct.pack('<I', v)
PackU32(v) == PackU24(v) \o <<(v \div 16777216) % 256>>

\* struct.unpack('<H', b)[0] and struct.unpack('<I', b)[0]: little-endian
RECURSIVE UnpackLE(_)
UnpackLE(b) == IF b = <<>> THEN 0 ELSE Head(b) + 256 * UnpackLE(Tail(b))

(***************************************************************************)
(* MC: DeviceType (mc_protocol.py) and the address range tables            *)
(***************************************************************************)
DeviceType(code, device_code, bits) ==
    [code |-> code, device_code |-> device_code, bits |-> bits]

\* the enumeration in definition order: lookups by wire code take the first
DeviceTypes == <<
    DeviceType("M", 144, 1), DeviceType("L", 146, 1), DeviceType("F", 147, 1),
    DeviceType("V", 148, 1), DeviceType("B", 160, 1), DeviceType("X", 156, 1),
    DeviceType("Y", 157, 1), DeviceType("S", 152, 1), DeviceType("SS", 152, 1),
    DeviceType("SC", 198, 1), DeviceType("TC", 192, 1), DeviceType("TS", 193, 1),
    DeviceType("CC", 195, 1), DeviceType("CS", 196, 1), DeviceType("SB", 161, 1),
    DeviceType("SM", 145, 1),
    DeviceType("D", 168, 16), DeviceType("W", 180, 16), DeviceType("R", 175, 16),
    DeviceType("ZR", 176, 16), DeviceType("TN", 194, 16), DeviceType("CN", 197, 16),
    DeviceType("SD", 169, 16), DeviceType("SW", 181, 16), DeviceType("Z", 204, 16)>>

DeviceD == DeviceTypes[17]

is_bit_device(dt) == dt.bits = 1

\* mutant: an unknown code falls back to the first member, the relay M
DeviceTypeOfCode_relay(device_code) ==
    LET hits == {i \in 1..Len(DeviceTypes) : DeviceTypes[i].device_code = device_code}
    IN IF hits = {} THEN DeviceTypes[1]
       ELSE DeviceTypes[CHOOSE i \in hits : \A j \in hits : i <= j]

\* "for dt in DeviceType: if dt.device_code == device_code" with the
\* fallback to DeviceType.D for an unknown code
DeviceTypeOfCode(device_code) ==
    LET hits == {i \in 1..Len(DeviceTypes) : DeviceTypes[i].device_code = device_code}
    IN IF hits = {} THEN DeviceD
       ELSE DeviceTypes[CHOOSE i \in hits : \A j \in hits : i <= j]

DeviceRange(lo, hi) == [min_address |-> lo, max_address |-> hi]

DEVICE_RANGES_Q ==
    [D |-> DeviceRange(0, 12287), M |-> DeviceRange(0, 8191),
     Y |-> DeviceRange(0, 8191), X |-> DeviceRange(0, 8191),
     B |-> DeviceRange(0, 32767), W |-> DeviceRange(0, 32767),
     L |-> DeviceRange(0, 8191), F |-> DeviceRange(0, 2047),
     V |-> DeviceRange(0, 2047), S |-> DeviceRange(0, 8191),
     R |-> DeviceRange(0, 32767), ZR |-> DeviceRange(0, 1048575),
     TN |-> DeviceRange(0, 2047), TC |-> DeviceRange(0, 2047),
     TS |-> DeviceRange(0, 2047), CN |-> DeviceRange(0, 1023),
     CC |-> DeviceRange(0, 1023), CS |-> DeviceRange(0, 1023),
     SM |-> DeviceRange(0, 2047), SD |-> DeviceRange(0, 2047),
     SB |-> DeviceRange(0, 2047), SW |-> DeviceRange(0, 2047),
     Z |-> DeviceRange(0, 19)]

DEVICE_RANGES_IQR ==
    [D |-> DeviceRange(0, 65535), M |-> DeviceRange(0, 65535),
     Y |-> DeviceRange(0, 8191), X |-> DeviceRange(0, 8191),
     B |-> DeviceRange(0, 32767), W |-> DeviceRange(0, 65535),
     L |-> DeviceRange(0, 32767), F |-> DeviceRange(0, 32767),
     V |-> DeviceRange(0, 32767), S |-> DeviceRange(0, 8191),
     R |-> DeviceRange(0, 32767), ZR |-> DeviceRange(0, 268435455),
     TN |-> DeviceRange(0, 2047), TC |-> DeviceRange(0, 2047),
     TS |-> DeviceRange(0, 2047), CN |-> DeviceRange(0, 1023),
     CC |-> DeviceRange(0, 1023), CS |-> DeviceRange(0, 1023),
     SM |-> DeviceRange(0, 4095), SD |-> DeviceRange(0, 4095),
     SB |-> DeviceRange(0, 2047), SW |-> DeviceRange(0, 2047),
     Z |-> DeviceRange(0, 19)]

Q_SERIES == "Q"

IQR_SERIES == "iQ-R"

\* PLCDeviceManager.__init__: the table of the configured series
device_ranges == IF series = IQR_SERIES THEN DEVICE_RANGES_IQR ELSE DEVICE_RANGES_Q

\* PLCDeviceManager._initialize_memory
InitialMemory == [c \in DOMAIN DEVICE_RANGES_Q |-> <<>>]

(***************************************************************************)
(* MC: PLCDeviceManager (plc_devices.py)                                   *)
(***************************************************************************)
\* dict.get(address, 0)
DictGet(d, address) == IF address \in DOMAIN d THEN d[address] ELSE 0

\* d[address] = value
DictPut(d, address, value) ==
    [k \in DOMAIN d \cup {address} |-> IF k = address THEN value ELSE d[k]]

validate_address(dt, address) ==
    /\ dt.code \in DOMAIN device_ranges
    /\ device_ranges[dt.code].min_address <= address
    /\ address <= device_ranges[dt.code].max_address

\* mutant: only the start address is checked
validate_range_start_only(dt, start, count) == validate_address(dt, start)

validate_range(dt, start, count) ==
    /\ validate_address(dt, start)
    /\ validate_address(dt, start + count - 1)

get_bit(mem, dt, address) ==
    IF dt.code \notin DOMAIN mem THEN FALSE
    ELSE DictGet(mem[dt.code], address) # 0

\* set_bit returns validate_address(dt, address); the store it leaves is:
set_bit(mem, dt, address, value) ==
    IF ~validate_address(dt, address) THEN mem
    ELSE [mem EXCEPT ![dt.code] = DictPut(@, address, IF value THEN 1 ELSE 0)]

get_bits(mem, dt, start, count) ==
    [i \in 1..count |-> get_bit(mem, dt, start + i - 1)]

\* the loop of set_bits over values[i..]
RECURSIVE set_bits_loop(_, _, _, _)
set_bits_loop(mem, dt, address, values) ==
    IF values = <<>> THEN mem
    ELSE set_bits_loop(set_bit(mem, dt, address, Head(values)),
                       dt, address + 1, Tail(values))

\* set_bits returns validate_range(dt, start, len(values))
set_bits(mem, dt, start, values) ==
    IF ~validate_range(dt, start, Len(values)) THEN mem
    ELSE set_bits_loop(mem, dt, start, values)

get_word(mem, dt, address) ==
    IF dt.code \notin DOMAIN mem THEN 0
    ELSE DictGet(mem[dt.code], address) % 65536

set_word(mem, dt, address, value) ==
    IF ~validate_address(dt, address) THEN mem
    ELSE [mem EXCEPT ![dt.code] = DictPut(@, address, value % 65536)]

get_words(mem, dt, start, count) ==
    [i \in 1..count |-> get_word(mem, dt, start + i - 1)]

RECURSIVE set_words_loop(_, _, _, _)
set_words_loop(mem, dt, address, values) ==
    IF values = <<>> THEN mem
    ELSE set_words_loop(set_word(mem, dt, address, Head(values)),
                        dt, address + 1, Tail(values))

\* set_words returns validate_range(dt, start, len(values))
set_words(mem, dt, start, values) ==
    IF ~validate_range(dt, start, Len(values)) THEN mem
    ELSE set_words_loop(mem, dt, start, values)

RECURSIVE get_bit_as_word_loop(_, _, _, _)
get_bit_as_word_loop(mem, dt, start, i) ==
    IF i = 16 THEN 0
    ELSE (IF get_bit(mem, dt, start + i) THEN Pow2(i) ELSE 0)
         + get_bit_as_word_loop(mem, dt, start, i + 1)

\* mutant: bit 0 is left out of the word
get_bit_as_word_from_bit_1(mem, dt, start) == get_bit_as_word_loop(mem, dt, start, 1)

get_bit_as_word(mem, dt, start) == get_bit_as_word_loop(mem, dt, start, 0)

\* set_bit_from_word: sixteen set_bit calls whose results are ignored
RECURSIVE set_bit_from_word_loop(_, _, _, _, _)
set_bit_from_word_loop(mem, dt, start, value, i) ==
    IF i = 16 THEN mem
    ELSE set_bit_from_word_loop(set_bit(mem, dt, start + i, BitOf(value, i)),
                                dt, start, value, i + 1)

set_bit_from_word(mem, dt, start, value) ==
    set_bit_from_word_loop(mem, dt, start, value, 0)

\* clear_all
clear_all == InitialMemory

(***************************************************************************)
(* MC: command dispatcher (mock_plc_server.py)                             *)
(***************************************************************************)
BATCH_READ == 1025

BATCH_WRITE == 5121

RANDOM_READ == 1027

RANDOM_WRITE == 5122

MONITOR == 2049

REMOTE_RUN == 4097

REMOTE_STOP == 4098

REMOTE_PAUSE == 4099

REMOTE_RESET == 4102

CPU_MODEL_READ == 257

SUB_WORD == 0

SUB_BIT == 1

END_OK == 0

END_COMMAND_ERROR == 80

END_DEVICE_ERROR == 49232

END_RANGE_ERROR == 49233

\* the server-side state a command works on
ServerState(mem, st, run) == [memory |-> mem, plc_state |-> st, ladder_running |-> run]

Result(end_code, data, sv) == [end_code |-> end_code, data |-> data, sv |-> sv]

\* b''.join(struct.pack('<H', v) for v in values)
RECURSIVE PackWords(_)
PackWords(values) ==
    IF values = <<>> THEN <<>> ELSE PackU16(Head(values)) \o PackWords(Tail(values))

\* the values a word write decodes: one per complete 2-byte group, at most count
WriteWords(write_data, count) ==
    [i \in 1..Min(count, Len(write_data) \div 2) |->
        UnpackLE(Slice(write_data, (i - 1) * 2, i * 2))]

\* "if count == 0: count = 256"
Count256(count) == IF count = 0 THEN 256 ELSE count

RECURSIVE bit_as_word_read(_, _, _, _)
bit_as_word_read(mem, dt, device_addr, word_count) ==
    IF word_count = 0 THEN <<>>
    ELSE bit_as_word_read(mem, dt, device_addr, word_count - 1)
         \o PackU16(get_bit_as_word(mem, dt, device_addr + (word_count - 1) * 16))

cmd_batch_read(sv, sub_command, data) ==
    IF Len(data) < 6 THEN Result(END_DEVICE_ERROR, <<>>, sv)
    ELSE LET device_addr == UnpackLE(Slice(data, 0, 3))
             device_type == DeviceTypeOfCode(data[4])
             count       == Count256(UnpackLE(Slice(data, 4, 6)))
             mem         == sv.memory
         IN IF sub_command = SUB_BIT
            THEN Result(END_OK,
                        [i \in 1..count |->
                            IF get_bits(mem, device_type, device_addr, count)[i]
                            THEN 1 ELSE 0],
                        sv)
            ELSE IF is_bit_device(device_type)
            THEN Result(END_OK,
                        bit_as_word_read(mem, device_type, device_addr, count), sv)
            ELSE Result(END_OK,
                        PackWords(get_words(mem, device_type, device_addr, count)), sv)

\* the loop "for i in range(count): ... set_bit_from_word(addr + i * 16, word)"
RECURSIVE bit_from_word_write(_, _, _, _, _)
bit_from_word_write(mem, dt, device_addr, words, i) ==
    IF i > Len(words) THEN mem
    ELSE bit_from_word_write(
             set_bit_from_word(mem, dt, device_addr + (i - 1) * 16, words[i]),
             dt, device_addr, words, i + 1)

cmd_batch_write(sv, sub_command, data) ==
    IF Len(data) < 6 THEN Result(END_DEVICE_ERROR, <<>>, sv)
    ELSE LET device_addr == UnpackLE(Slice(data, 0, 3))
             device_type == DeviceTypeOfCode(data[4])
             count       == Count256(UnpackLE(Slice(data, 4, 6)))
             write_data  == Slice(data, 6, Len(data))
             mem         == sv.memory
         IN IF sub_command = SUB_BIT
            THEN LET values == [i \in 1..Min(count, Len(write_data)) |->
                                   write_data[i] # 0]
                 IN IF ~validate_range(device_type, device_addr, Len(values))
                    THEN Result(END_RANGE_ERROR, <<>>, sv)
                    ELSE Result(END_OK, <<>>,
                                [sv EXCEPT !.memory =
                                    set_bits(mem, device_type, device_addr, values)])
            ELSE IF is_bit_device(device_type)
            THEN Result(END_OK, <<>>,
                        [sv EXCEPT !.memory =
                            bit_from_word_write(mem, device_type, device_addr,
                                                WriteWords(write_data, count), 1)])
            ELSE LET values == WriteWords(write_data, count)
                 IN IF ~validate_range(device_type, device_addr, Len(values))
                    THEN Result(END_RANGE_ERROR, <<>>, sv)
                    ELSE Result(END_OK, <<>>,
                                [sv EXCEPT !.memory =
                                    set_words(mem, device_type, device_addr, values)])

\* word loop of _cmd_random_read; returns <<response bytes, offset>>
RECURSIVE random_read_words(_, _, _, _)
random_read_words(mem, data, offset, n) ==
    IF n = 0 \/ offset + 4 > Len(data) THEN <<<<>>, offset>>
    ELSE LET device_addr == UnpackLE(Slice(data, offset, offset + 3))
             device_type == DeviceTypeOfCode(data[offset + 4])
             value == IF is_bit_device(device_type)
                      THEN get_bit_as_word(mem, device_type, device_addr)
                      ELSE get_word(mem, device_type, device_addr)
             rest  == random_read_words(mem, data, offset + 4, n - 1)
         IN <<PackU16(value) \o rest[1], rest[2]>>

RECURSIVE random_read_dwords(_, _, _, _)
random_read_dwords(mem, data, offset, n) ==
    IF n = 0 \/ offset + 4 > Len(data) THEN <<>>
    ELSE LET device_addr == UnpackLE(Slice(data, offset, offset + 3))
             device_type == DeviceTypeOfCode(data[offset + 4])
             low  == get_word(mem, device_type, device_addr)
             high == get_word(mem, device_type, device_addr + 1)
         IN PackU16(low) \o PackU16(high)
            \o random_read_dwords(mem, data, offset + 4, n - 1)

cmd_random_read(sv, sub_command, data) ==
    IF Len(data) < 2 THEN Result(END_DEVICE_ERROR, <<>>, sv)
    ELSE LET words == random_read_words(sv.memory, data, 2, data[1])
         IN Result(END_OK,
                   words[1] \o random_read_dwords(sv.memory, data, words[2], data[2]),
                   sv)

\* word loop of _cmd_random_write; returns <<store, offset>>
RECURSIVE random_write_words(_, _, _, _)
random_write_words(mem, data, offset, n) ==
    IF n = 0 \/ offset + 6 > Len(data) THEN <<mem, offset>>
    ELSE LET device_addr == UnpackLE(Slice(data, offset, offset + 3))
             device_type == DeviceTypeOfCode(data[offset + 4])
             value == UnpackLE(Slice(data, offset + 4, offset + 6))
             mem1  == IF is_bit_device(device_type)
                      THEN set_bit_from_word(mem, device_type, device_addr, value)
                      ELSE set_word(mem, device_type, device_addr, value)
         IN random_write_words(mem1, data, offset + 6, n - 1)

RECURSIVE random_write_dwords(_, _, _, _)
random_write_dwords(mem, data, offset, n) ==
    IF n = 0 \/ offset + 8 > Len(data) THEN mem
    ELSE LET device_addr == UnpackLE(Slice(data, offset, offset + 3))
             device_type == DeviceTypeOfCode(data[offset + 4])
             low   == UnpackLE(Slice(data, offset + 4, offset + 6))
             high  == UnpackLE(Slice(data, offset + 6, offset + 8))
             mem1  == set_word(mem, device_type, device_addr, low)
             mem2  == set_word(mem1, device_type, device_addr + 1, high)
         IN random_write_dwords(mem2, data, offset + 8, n - 1)

cmd_random_write(sv, sub_command, data) ==
    IF Len(data) < 2 THEN Result(END_DEVICE_ERROR, <<>>, sv)
    ELSE LET words == random_write_words(sv.memory, data, 2, data[1])
         IN Result(END_OK, <<>>,
                   [sv EXCEPT !.memory =
                       random_write_dwords(words[1], data, words[2], data[2])])

\* PLCInfo.get_model_name(): "Q03UD" or "R04CPU", as ASCII
ModelName == IF series = Q_SERIES THEN <<81, 48, 51, 85, 68>>
             ELSE <<82, 48, 52, 67, 80, 85>>

\* model_name[:16].ljust(16, b'\x00')
cmd_cpu_model_read(sv) ==
    Result(END_OK,
           [i \in 1..16 |-> IF i <= Len(ModelName) THEN ModelName[i] ELSE 0], sv)

cmd_remote_run(sv) ==
    Result(END_OK, <<>>, [sv EXCEPT !.plc_state = "RUN", !.ladder_running = TRUE])

cmd_remote_stop(sv) ==
    Result(END_OK, <<>>, [sv EXCEPT !.plc_state = "STOP", !.ladder_running = FALSE])

cmd_remote_pause(sv) ==
    Result(END_OK, <<>>, [sv EXCEPT !.plc_state = "PAUSE", !.ladder_running = FALSE])

cmd_remote_reset(sv) ==
    Result(END_OK, <<>>,
           [sv EXCEPT !.plc_state = "STOP", !.ladder_running = FALSE,
                      !.memory = clear_all])

process_command(sv, command, sub_command, data) ==
    IF command = BATCH_READ THEN cmd_batch_read(sv, sub_command, data)
    ELSE IF command = BATCH_WRITE THEN cmd_batch_write(sv, sub_command, data)
    ELSE IF command = RANDOM_READ THEN cmd_random_read(sv, sub_command, data)
    ELSE IF command = RANDOM_WRITE THEN cmd_random_write(sv, sub_command, data)
    ELSE IF command = CPU_MODEL_READ THEN cmd_cpu_model_read(sv)
    ELSE IF command = REMOTE_RUN THEN cmd_remote_run(sv)
    ELSE IF command = REMOTE_STOP THEN cmd_remote_stop(sv)
    ELSE IF command = REMOTE_PAUSE THEN cmd_remote_pause(sv)
    ELSE IF command = REMOTE_RESET THEN cmd_remote_reset(sv)
    ELSE Result(END_COMMAND_ERROR, <<>>, sv)

(***************************************************************************)
(* MC: frame codec (mc_protocol.py)                                        *)
(***************************************************************************)
SUBHEADER_3E_REQUEST == 20480

SUBHEADER_3E_RESPONSE == 53248

SUBHEADER_4E_REQUEST == 21504

SUBHEADER_4E_RESPONSE == 54272

\* 'frame_type' values; NoFrameType stands for a record without the key
NoFrameType == "None"

\* 'original_command' of a record without the key
NoCommand == -1

\* ASCII text of the four subheaders, as bytes
Text5000 == <<53, 48, 48, 48>>

Text5400 == <<53, 52, 48, 48>>

TextD000 == <<68, 48, 48, 48>>

TextD400 == <<68, 52, 48, 48>>

\* the dictionary parse_request returns, read through the request.get(...)
\* defaults of _handle_request; raised = TRUE stands for a raised exception
Parsed(frame_type, network_no, pc_no, serial_no, command, sub_command, command_data, original_command) ==
    [raised |-> FALSE, frame_type |-> frame_type, network_no |-> network_no,
     pc_no |-> pc_no, serial_no |-> serial_no, command |-> command,
     sub_command |-> sub_command, command_data |-> command_data,
     original_command |-> original_command]

Raised == [Parsed(NoFrameType, 0, 255, 0, 0, 0, <<>>, NoCommand) EXCEPT !.raised = TRUE]

\* one hexadecimal digit of int(text, 16); -1 when it is none
HexDigit(c) ==
    IF c >= 48 /\ c <= 57 THEN c - 48
    ELSE IF c >= 65 /\ c <= 70 THEN c - 55
    ELSE IF c >= 97 /\ c <= 102 THEN c - 87
    ELSE -1

\* int(text, 16); -1 stands for ValueError
RECURSIVE ParseHexAcc(_, _)
ParseHexAcc(text, acc) ==
    IF text = <<>> THEN acc
    ELSE IF HexDigit(Head(text)) < 0 THEN -1
    ELSE ParseHexAcc(Tail(text), acc * 16 + HexDigit(Head(text)))

ParseHex(text) == IF text = <<>> THEN -1 ELSE ParseHexAcc(text, 0)

HexChar(d) == IF d < 10 THEN 48 + d ELSE 55 + d

\* f"{v:0<width>X}"
RECURSIVE FormatHex(_, _)
FormatHex(v, width) ==
    IF width <= 1 /\ v < 16 THEN <<HexChar(v)>>
    ELSE FormatHex(v \div 16, width - 1) \o <<HexChar(v % 16)>>

\* data.hex().upper()
RECURSIVE HexText(_)
HexText(data) ==
    IF data = <<>> THEN <<>> ELSE FormatHex(Head(data), 2) \o HexText(Tail(data))

IsAscii(data) == \A i \in 1..Len(data) : data[i] < 128

\* str.upper() on one character
Upper(c) == IF c >= 97 /\ c <= 122 THEN c - 32 ELSE c

\* device_part[0:2].strip('*').upper()
DeviceName(two) ==
    LET n == Len(two)
        lo == IF n >= 1 /\ two[1] = 42 THEN (IF n >= 2 /\ two[2] = 42 THEN 2 ELSE 1) ELSE 0
        hi == IF n > lo /\ two[n] = 42 THEN n - 1 ELSE n
    IN [i \in 1..(hi - lo) |-> Upper(two[lo + i])]

\* device_map of _parse_ascii_device_data: name (ASCII) -> device code
AsciiDeviceMap == <<
    <<<<68>>, 168>>, <<<<87>>, 180>>, <<<<82>>, 175>>, <<<<90, 82>>, 176>>,
    <<<<77>>, 144>>, <<<<88>>, 156>>, <<<<89>>, 157>>, <<<<66>>, 160>>,
    <<<<76>>, 146>>, <<<<70>>, 147>>, <<<<86>>, 148>>, <<<<83>>, 152>>,
    <<<<84, 78>>, 194>>, <<<<67, 78>>, 197>>, <<<<83, 68>>, 169>>,
    <<<<83, 87>>, 181>>, <<<<84, 67>>, 192>>, <<<<84, 83>>, 193>>,
    <<<<67, 67>>, 195>>, <<<<67, 83>>, 196>>, <<<<83, 77>>, 145>>,
    <<<<83, 66>>, 161>>, <<<<90>>, 204>> >>

AsciiDeviceCode(name) ==
    LET hits == {i \in 1..Len(AsciiDeviceMap) : AsciiDeviceMap[i][1] = name}
    IN IF hits = {} THEN 168 ELSE AsciiDeviceMap[CHOOSE i \in hits : TRUE][2]

\* word write part: groups of four characters until one fails to parse
RECURSIVE AsciiWriteWords(_)
AsciiWriteWords(write_part) ==
    IF write_part = <<>> THEN <<>>
    ELSE LET val == ParseHex(Slice(write_part, 0, 4))
         IN IF val < 0 THEN <<>>
            ELSE PackU16(val) \o AsciiWriteWords(Slice(write_part, 4, Len(write_part)))

parse_ascii_device_data(device_part, command, sub_command) ==
    IF Len(device_part) < 10 THEN <<>>
    ELSE LET device_code == AsciiDeviceCode(DeviceName(Slice(device_part, 0, 2)))
             a       == ParseHex(Slice(device_part, 2, 8))
             address == IF a < 0 THEN 0 ELSE a
             c       == ParseHex(Slice(device_part, 8, 12))
             count   == IF c < 0 THEN 1 ELSE c
             write_part == Slice(device_part, 12, Len(device_part))
         IN PackU24(address) \o <<device_code>> \o PackU16(count)
            \o (IF command = BATCH_WRITE /\ Len(device_part) > 12
                THEN IF sub_command = SUB_BIT
                     THEN [i \in 1..Len(write_part) |->
                              IF write_part[i] = 49 THEN 1 ELSE 0]
                     ELSE AsciiWriteWords(write_part)
                ELSE <<>>)

\* header fields at [4:6] [6:8] [8:12] [12:14] [14:18] [18:22], then command
parse_3e_ascii_request(text) ==
    LET f(lo, hi) == ParseHex(Slice(text, lo, hi))
    IN IF \E r \in {<<4, 6>>, <<6, 8>>, <<8, 12>>, <<12, 14>>, <<14, 18>>, <<18, 22>>} :
             f(r[1], r[2]) < 0
       THEN Raised
       ELSE IF Len(text) >= 30
       THEN IF f(22, 26) < 0 \/ f(26, 30) < 0 THEN Raised
            ELSE Parsed("3E_ASCII", f(4, 6), f(6, 8), 0, f(22, 26), f(26, 30),
                        parse_ascii_device_data(Slice(text, 30, Len(text)),
                                                f(22, 26), f(26, 30)),
                        NoCommand)
       ELSE Parsed("3E_ASCII", f(4, 6), f(6, 8), 0, 0, 0, <<>>, NoCommand)

parse_4e_ascii_request(text) ==
    LET f(lo, hi) == ParseHex(Slice(text, lo, hi))
    IN IF \E r \in {<<4, 8>>, <<12, 14>>, <<14, 16>>, <<16, 20>>, <<20, 22>>,
                    <<22, 26>>, <<26, 30>>} : f(r[1], r[2]) < 0
       THEN Raised
       ELSE IF Len(text) >= 38
       THEN IF f(30, 34) < 0 \/ f(34, 38) < 0 THEN Raised
            ELSE Parsed("4E_ASCII", f(12, 14), f(14, 16), f(4, 8), f(30, 34), f(34, 38),
                        parse_ascii_device_data(Slice(text, 38, Len(text)),
                                                f(30, 34), f(34, 38)),
                        NoCommand)
       ELSE Parsed("4E_ASCII", f(12, 14), f(14, 16), f(4, 8), 0, 0, <<>>, NoCommand)

parse_ascii_request(data) ==
    IF ~IsAscii(data) THEN Raised
    ELSE IF Slice(data, 0, 4) = Text5000 THEN parse_3e_ascii_request(data)
    ELSE IF Slice(data, 0, 4) = Text5400 THEN parse_4e_ascii_request(data)
    ELSE Raised

\* no 'frame_type' key is set by the two binary parsers
parse_3e_request(data) ==
    IF Len(data) >= 15
    THEN Parsed(NoFrameType, data[3], data[4], 0,
                UnpackLE(Slice(data, 11, 13)), UnpackLE(Slice(data, 13, 15)),
                Slice(data, 15, Len(data)), NoCommand)
    ELSE Parsed(NoFrameType, data[3], data[4], 0, 0, 0, <<>>, NoCommand)

parse_4e_request(data) ==
    IF Len(data) >= 19
    THEN Parsed(NoFrameType, data[7], data[8], UnpackLE(Slice(data, 2, 4)),
                UnpackLE(Slice(data, 15, 17)), UnpackLE(Slice(data, 17, 19)),
                Slice(data, 19, Len(data)), NoCommand)
    ELSE Parsed(NoFrameType, data[7], data[8], UnpackLE(Slice(data, 2, 4)),
                0, 0, <<>>, NoCommand)

\* device_code_1e_map: A-compatible device byte -> 3E device code (0 = absent)
device_code_1e_map(b) ==
    CASE b = 77 -> 144 [] b = 68 -> 168 [] b = 88 -> 156 [] b = 89 -> 157
      [] b = 66 -> 160 [] b = 87 -> 180 [] b = 82 -> 175 [] b = 76 -> 146
      [] b = 70 -> 147 [] b = 86 -> 148 [] b = 83 -> 152 [] b = 90 -> 204
      [] b = 32 -> 168 [] b = 36 -> 180 [] b = 1 -> 144 [] b = 24 -> 156
      [] b = 25 -> 157 [] OTHER -> 0

is_long_format(byte_8) == device_code_1e_map(byte_8) # 0 \/ byte_8 >= 128

parse_1e_request(data) ==
    IF Len(data) < 9 THEN Raised
    ELSE
    LET command == data[1]
        pc_no   == data[2]
        byte_8  == data[9]
        long    == is_long_format(byte_8) /\ Len(data) >= 11
        \* struct.unpack('<I', data[4:8]) is read as raw_addr & 0xFFFFFF and
        \* (raw_addr >> 24) & 0xFF; command_data keeps its three low bytes only
        raw_addr  == UnpackLE(Slice(data, 4, 7))
        high_byte == data[8]
        device_code ==
            IF long
            THEN IF device_code_1e_map(byte_8) # 0 THEN device_code_1e_map(byte_8)
                 ELSE byte_8
            ELSE IF device_code_1e_map(high_byte) # 0
                 THEN device_code_1e_map(high_byte) ELSE 168
        device_addr ==
            IF long THEN raw_addr
            ELSE IF device_code_1e_map(high_byte) # 0
                 THEN raw_addr % 16777216 ELSE raw_addr
        count0 == Count256(IF long THEN data[11] ELSE data[9])
        write_data == IF long THEN Slice(data, 11, Len(data))
                      ELSE Slice(data, 9, Len(data))
        count ==
            IF command = 2 /\ Len(write_data) > 0 /\ Len(write_data) # count0
            THEN Len(write_data)
            ELSE IF command = 3 /\ Len(write_data) >= 2
                    /\ Len(write_data) \div 2 # count0
            THEN Len(write_data) \div 2
            ELSE count0
        mc_command  == IF command \in {0, 1} THEN BATCH_READ
                       ELSE IF command \in {2, 3} THEN BATCH_WRITE
                       ELSE command
        sub_command == IF command \in {0, 2} THEN SUB_BIT ELSE SUB_WORD
    IN Parsed("1E", 0, pc_no, 0, mc_command, sub_command,
              PackU24(device_addr) \o <<device_code>> \o PackU16(count)
              \o (IF command \in {2, 3} THEN write_data ELSE <<>>),
              command)

\* the ASCII probe at the head of parse_request; every exception raised in
\* it, those of _parse_ascii_request included, is swallowed ("except: pass")
AsciiProbe(data) ==
    LET first_chars == Slice(data, 0, 4)
    IN IF ~IsAscii(first_chars) THEN Raised
       ELSE IF first_chars \in {Text5000, Text5400, TextD000, TextD400}
               \/ \A i \in 1..Len(first_chars) :
                      first_chars[i] >= 32 /\ first_chars[i] < 127
       THEN parse_ascii_request(data)
       ELSE Raised

FinsUnsupported == Parsed("FINS_UNSUPPORTED", 0, 255, 0, 0, 0, <<>>, NoCommand)

\* parse_request after the ASCII probe has raised
parse_binary_request(data) ==
    LET subheader == UnpackLE(Slice(data, 0, 2))
    IN IF subheader = SUBHEADER_3E_REQUEST
       THEN IF Len(data) < 11 THEN Raised ELSE parse_3e_request(data)
       ELSE IF subheader = SUBHEADER_4E_REQUEST
       THEN IF Len(data) < 15 THEN Raised ELSE parse_4e_request(data)
       ELSE IF subheader = SUBHEADER_3E_RESPONSE /\ Len(data) >= 11
       THEN parse_3e_request(data)
       ELSE IF subheader = SUBHEADER_4E_RESPONSE /\ Len(data) >= 15
       THEN parse_4e_request(data)
       ELSE IF data[1] <= 15 THEN parse_1e_request(data)
       ELSE IF data[1] = 128 /\ data[2] = 0 THEN FinsUnsupported
       ELSE parse_1e_request(data)

parse_request(data) ==
    IF Len(data) < 2 THEN Raised
    ELSE The({IF ~probe.raised THEN probe ELSE parse_binary_request(data) :
                 probe \in {AsciiProbe(data)}})

\* mutant: the response bit 0x80 is not set
Or80_unset(c) == c

\* original_command | 0x80
Or80(c) == IF c >= 128 THEN c ELSE c + 128

build_1e_response(end_code, data, original_command) ==
    LET cmd_response == IF original_command # NoCommand THEN Or80(original_command)
                        ELSE 128
    IN IF end_code = 0 THEN <<cmd_response, 0>> \o data
       ELSE <<cmd_response, end_code % 256>> \o PackU16(end_code)

build_3e_ascii_response(end_code, data, network_no, pc_no) ==
    TextD000 \o FormatHex(network_no, 2) \o FormatHex(pc_no, 2)
    \o <<48, 51, 70, 70>> \o <<48, 48>>
    \o FormatHex(Len(data) + 2, 4) \o FormatHex(end_code, 4) \o HexText(data)

build_4e_ascii_response(end_code, data, network_no, pc_no, serial_no) ==
    TextD400 \o FormatHex(serial_no, 4) \o <<48, 48, 48, 48>>
    \o FormatHex(network_no, 2) \o FormatHex(pc_no, 2)
    \o <<48, 51, 70, 70>> \o <<48, 48>>
    \o FormatHex(Len(data) + 2, 4) \o FormatHex(end_code, 4) \o HexText(data)

build_3e_response(end_code, data, network_no, pc_no) ==
    PackU16(SUBHEADER_3E_RESPONSE) \o <<network_no, pc_no>> \o PackU16(1023) \o <<0>>
    \o PackU16(Len(data) + 2) \o PackU16(end_code) \o data

build_4e_response(end_code, data, network_no, pc_no, serial_no) ==
    PackU16(SUBHEADER_4E_RESPONSE) \o PackU16(serial_no) \o PackU16(0)
    \o <<network_no, pc_no>> \o PackU16(1023) \o <<0>>
    \o PackU16(Len(data) + 2) \o PackU16(end_code) \o data

build_response(end_code, data, network_no, pc_no, serial_no, frame_type, original_command) ==
    IF frame_type = "1E" THEN build_1e_response(end_code, data, original_command)
    ELSE IF frame_type = "3E_ASCII"
    THEN build_3e_ascii_response(end_code, data, network_no, pc_no)
    ELSE IF frame_type = "4E_ASCII"
    THEN build_4e_ascii_response(end_code, data, network_no, pc_no, serial_no)
    ELSE IF series = Q_SERIES
    THEN build_3e_response(end_code, data, network_no, pc_no)
    ELSE build_4e_response(end_code, data, network_no, pc_no, serial_no)

(***************************************************************************)
(* MC: MockPLCServer._handle_request                                       *)
(***************************************************************************)
\* the response bytes and the server state a request leaves
\* after parse_request has returned the record req
handle_parsed(sv, req) ==
    IF req.frame_type = "FINS_UNSUPPORTED"
    THEN [response |-> <<0, 0, 0, 0>>, sv |-> sv]
    ELSE The({[response |-> build_response(r.end_code, r.data, req.network_no,
                                           req.pc_no, req.serial_no,
                                           req.frame_type, req.original_command),
               sv |-> r.sv] :
                 r \in {process_command(sv, req.command, req.sub_command,
                                        req.command_data)}})

handle_request(sv, data) ==
    The({IF req.raised
         THEN [response |-> build_response(END_COMMAND_ERROR, <<>>, 0, 255, 0,
                                           NoFrameType, NoCommand),
               sv |-> sv]
         ELSE handle_parsed(sv, req) :
            req \in {parse_request(data)}})

(***************************************************************************)
(* MC: request builders (mc_protocol.py, test_plc_client.py)               *)
(***************************************************************************)
\* number of values in one batch request: 1..MaxWords
MaxWords == 2

\* number of requests one behaviour exchanges
MaxRequests == 2

MCFrame(frame_series, serial_no) ==
    [series |-> frame_series, network_no |-> 0, pc_no |-> 255,
     request_dest_module_io |-> 1023, request_dest_module_station |-> 0,
     monitoring_timer |-> 16, serial_no |-> serial_no]

build_3e_frame(frame, data) ==
    PackU16(SUBHEADER_3E_REQUEST) \o <<frame.network_no, frame.pc_no>>
    \o PackU16(frame.request_dest_module_io) \o <<frame.request_dest_module_station>>
    \o PackU16(Len(data) + 2) \o PackU16(frame.monitoring_timer) \o data

build_4e_frame(frame, data) ==
    PackU16(SUBHEADER_4E_REQUEST) \o PackU16(frame.serial_no) \o PackU16(0)
    \o <<frame.network_no, frame.pc_no>>
    \o PackU16(frame.request_dest_module_io) \o <<frame.request_dest_module_station>>
    \o PackU16(Len(data) + 2) \o PackU16(frame.monitoring_timer) \o data

build_frame(frame, data) ==
    IF frame.series = Q_SERIES THEN build_3e_frame(frame, data)
    ELSE build_4e_frame(frame, data)

build_batch_read_request(frame, device_type, start_address, count, is_bit) ==
    build_frame(frame,
        PackU16(BATCH_READ) \o PackU16(IF is_bit THEN SUB_BIT ELSE SUB_WORD)
        \o PackU24(start_address) \o <<device_type.device_code>> \o PackU16(count))

build_batch_write_request(frame, device_type, start_address, values, is_bit) ==
    build_frame(frame,
        PackU16(BATCH_WRITE) \o PackU16(IF is_bit THEN SUB_BIT ELSE SUB_WORD)
        \o PackU24(start_address) \o <<device_type.device_code>>
        \o PackU16(Len(values))
        \o (IF is_bit THEN [i \in 1..Len(values) |-> IF values[i] # 0 THEN 1 ELSE 0]
            ELSE PackWords(values)))

build_remote_control_request(frame, command) ==
    build_frame(frame,
        PackU16(command) \o PackU16(0)
        \o (IF command = REMOTE_RUN THEN PackU16(1) \o PackU32(0)
            ELSE IF command \in {REMOTE_PAUSE, REMOTE_RESET} THEN PackU16(1)
            ELSE <<>>))

build_cpu_model_read_request(frame) ==
    build_frame(frame, PackU16(CPU_MODEL_READ) \o PackU16(0))

\* random write in the layout _cmd_random_write reads: the two counts, then
\* (address, code, value) per word and (address, code, low, high) per dword
RECURSIVE RandomWords(_)
RandomWords(words) ==
    IF words = <<>> THEN <<>>
    ELSE PackU24(Head(words)[2]) \o <<Head(words)[1].device_code>>
         \o PackU16(Head(words)[3]) \o RandomWords(Tail(words))

RECURSIVE RandomDwords(_)
RandomDwords(dwords) ==
    IF dwords = <<>> THEN <<>>
    ELSE PackU24(Head(dwords)[2]) \o <<Head(dwords)[1].device_code>>
         \o PackU16(Head(dwords)[3]) \o PackU16(Head(dwords)[4])
         \o RandomDwords(Tail(dwords))

RandomWriteData(words, dwords) ==
    <<Len(words), Len(dwords)>> \o RandomWords(words) \o RandomDwords(dwords)

\* cut = number of bytes missing at the end of the element list
build_random_write_request(frame, words, dwords, cut) ==
    LET data == RandomWriteData(words, dwords)
    IN build_frame(frame,
           PackU16(RANDOM_WRITE) \o PackU16(0) \o Slice(data, 0, Len(data) - cut))

\* PLCTestClient.build_1e_read_request / build_1e_write_request (D registers)
build_1e_read_request(address, count, is_bit) ==
    <<IF is_bit THEN 0 ELSE 1, 255>> \o PackU16(16) \o PackU32(address)
    \o <<IF count <= 255 THEN count ELSE 0>>

build_1e_write_request(address, values, is_bit) ==
    <<IF is_bit THEN 2 ELSE 3, 255>> \o PackU16(16) \o PackU32(address)
    \o <<IF Len(values) <= 255 THEN Len(values) ELSE 0>>
    \o (IF is_bit THEN [i \in 1..Len(values) |-> IF values[i] # 0 THEN 1 ELSE 0]
        ELSE PackWords(values))

\* PLCTestClient.build_3e_ascii_read_request, with the command and the text
\* after the count as parameters; serial < 0 builds the 3E form, otherwise
\* the 4E form that _parse_4e_ascii_request reads
build_ascii_request(serial, command, sub_command, device_name, address, count, tail) ==
    LET data_part == FormatHex(command, 4) \o FormatHex(sub_command, 4)
                     \o device_name \o FormatHex(address, 6) \o FormatHex(count, 4)
                     \o tail
    IN (IF serial < 0 THEN Text5000 ELSE Text5400 \o FormatHex(serial, 4) \o <<48, 48, 48, 48>>)
       \o <<48, 48>> \o <<70, 70>> \o <<48, 51, 70, 70>> \o <<48, 48>>
       \o FormatHex(Len(data_part) \div 2 + 2, 4) \o <<48, 48, 49, 48>>
       \o data_part

(***************************************************************************)
(* MC: response parsers of the clients                                     *)
(***************************************************************************)
Response(end_code, data) == [raised |-> FALSE, end_code |-> end_code, data |-> data]

\* ValueError
RaisedResponse == [raised |-> TRUE, end_code |-> -1, data |-> <<>>]

\* MCProtocol._parse_3e_response
parse_3e_response(data) ==
    IF Len(data) < 11 THEN RaisedResponse
    ELSE IF UnpackLE(Slice(data, 0, 2)) # SUBHEADER_3E_RESPONSE THEN RaisedResponse
    ELSE LET data_length == UnpackLE(Slice(data, 7, 9))
         IN Response(UnpackLE(Slice(data, 9, 11)),
                     IF data_length > 2 THEN Slice(data, 11, 9 + data_length) ELSE <<>>)

\* MCProtocol._parse_4e_response
parse_4e_response(data) ==
    IF Len(data) < 15 THEN RaisedResponse
    ELSE IF UnpackLE(Slice(data, 0, 2)) # SUBHEADER_4E_RESPONSE THEN RaisedResponse
    ELSE LET data_length == UnpackLE(Slice(data, 11, 13))
         IN Response(UnpackLE(Slice(data, 13, 15)),
                     IF data_length > 2 THEN Slice(data, 15, 13 + data_length) ELSE <<>>)

\* MCProtocol.parse_response(data, series)
parse_response(data, client_series) ==
    IF client_series = Q_SERIES THEN parse_3e_response(data)
    ELSE parse_4e_response(data)

\* PLCTestClient.parse_1e_response
parse_1e_response(data) ==
    IF Len(data) < 2 THEN Response(-1, <<>>)
    ELSE Response(data[2], Slice(data, 2, Len(data)))

(***************************************************************************)
(* MC: the requests drawn by the model                                     *)
(***************************************************************************)
DeviceM == DeviceTypes[1]

DeviceX == DeviceTypes[6]

SerialNo == 4660

FrameQ == MCFrame(Q_SERIES, 0)

FrameR == MCFrame(IQR_SERIES, SerialNo)

Frames == {FrameQ, FrameR}

WordVals == {500, 65535}

\* n values alternating between the two word values, from either of them
ValueLists ==
    {[i \in 1..n |-> IF i % 2 = 1 THEN v ELSE 66035 - v] :
        n \in 1..MaxWords, v \in WordVals}

BitLists == {[i \in 1..n |-> (i + k) % 2] : n \in 1..MaxWords, k \in {0, 1}}

\* first and last data register of the Q series
WordTargets == {<<DeviceD, 0>>, <<DeviceD, 12287>>}

\* the last input of the X range
BitTargets == {<<DeviceX, 8191>>}

\* 3E frames address every target, 4E frames the first data register
TargetsOf(f) ==
    IF f.series = Q_SERIES THEN WordTargets \cup BitTargets ELSE {<<DeviceD, 0>>}

BatchReadRequests ==
    {build_batch_read_request(f, t[1], t[2], n, FALSE) :
        f \in Frames, t \in WordTargets \cup BitTargets, n \in 1..MaxWords}
    \cup {build_batch_read_request(FrameQ, t[1], t[2], n, TRUE) :
        t \in BitTargets, n \in 1..MaxWords}

BatchWriteRequests ==
    UNION {{build_batch_write_request(f, t[1], t[2], v, FALSE) :
               t \in TargetsOf(f), v \in ValueLists} : f \in Frames}
    \cup {build_batch_write_request(FrameQ, t[1], t[2], v, TRUE) :
        t \in BitTargets, v \in BitLists}

RandomInRange == <<DeviceD, 0, 500>>

\* D12288 lies beyond the Q series range, X8191 + 15 beyond the X range
RandomWordLists ==
    {<<>>, <<RandomInRange>>, <<RandomInRange, <<DeviceD, 12288, 500>>>>,
     <<<<DeviceX, 8191, 65535>>>>}

\* the second word of the double word at D12287 is D12288
RandomDwordLists == {<<>>, <<<<DeviceD, 12287, 500, 65535>>>>}

RandomWriteRequests ==
    {build_random_write_request(FrameQ, w, d, cut) :
        w \in RandomWordLists, d \in RandomDwordLists, cut \in {0, 1}}

\* random read of one word and one double word, as _cmd_random_read reads it
RandomReadRequest ==
    build_frame(FrameQ, PackU16(RANDOM_READ) \o PackU16(0) \o <<1, 1>>
                        \o PackU24(0) \o <<DeviceD.device_code>>
                        \o PackU24(12287) \o <<DeviceD.device_code>>)

ControlRequests ==
    {build_remote_control_request(FrameQ, c) :
        c \in {REMOTE_RUN, REMOTE_STOP, REMOTE_PAUSE, REMOTE_RESET, MONITOR}}
    \cup {build_remote_control_request(FrameR, REMOTE_RUN), RandomReadRequest}
    \cup {build_cpu_model_read_request(f) : f \in Frames}

BinaryRequests ==
    BatchReadRequests \cup BatchWriteRequests \cup RandomWriteRequests
    \cup ControlRequests

\* "D*"
NameD == <<68, 42>>

\* serial < 0: the 3E ASCII frame
AsciiSerials == {-1, SerialNo}

AsciiRequests ==
    {build_ascii_request(s, BATCH_READ, SUB_WORD, NameD, 0, n, <<>>) :
        s \in AsciiSerials, n \in 1..MaxWords}
    \cup {build_ascii_request(s, BATCH_WRITE, SUB_WORD, NameD, 0, Len(v),
                              HexText(PackWords(v))) :
        s \in AsciiSerials, v \in ValueLists}
    \cup {Slice(build_ascii_request(s, BATCH_READ, SUB_WORD, NameD, 0, 1, <<>>), 0, k) :
        s \in AsciiSerials, k \in {12, 30}}

OneERequests ==
    {build_1e_read_request(a, n, FALSE) : a \in {0, 12287}, n \in 1..MaxWords}
    \cup {build_1e_write_request(0, v, FALSE) : v \in ValueLists}

\* ten bytes under a subheader that is no MC subheader (0x1234), a 3E and a
\* 4E frame with the subheader bytes in the order 0x50 0x00 and 0x54 0x00,
\* and a FINS header
MalformedRequests ==
    {sub \o [i \in 1..8 |-> b] : sub \in {<<52, 18>>, <<18, 52>>}, b \in {0, 17}}
    \cup {<<80, 0>> \o Slice(build_batch_read_request(FrameQ, DeviceD, 0, 1, FALSE), 2, 21),
          <<84, 0>> \o Slice(build_batch_read_request(FrameR, DeviceD, 0, 1, FALSE), 2, 25),
          <<128, 0, 2, 0, 0, 0, 0, 0, 0, 0>>}

Requests ==
    BinaryRequests \cup AsciiRequests \cup OneERequests \cup MalformedRequests

(***************************************************************************)
(* MC: one exchange on the connection (_server_loop: recv, handle, send)   *)
(***************************************************************************)
Exchange(data) ==
    /\ running
    /\ \E r \in {handle_request(ServerState(memory, plc_state, ladder_running), data)} :
          /\ response' = r.response
          /\ memory' = r.sv.memory
          /\ plc_state' = r.sv.plc_state
          /\ ladder_running' = r.sv.ladder_running
    /\ request' = data
    /\ memory_before' = memory
    /\ state_before' = <<plc_state, ladder_running>>
    /\ handled' = handled + 1
    /\ UNCHANGED <<series, running>>
    /\ UNCHANGED <<gvspVars, scanVars, hbVars, camVars, sendVars, mixVars, connVars, extVars>>

ExchangeBinary ==
    /\ handled < MaxRequests
    /\ \E data \in BinaryRequests : Exchange(data)

ExchangeAscii ==
    /\ handled < MaxRequests
    /\ \E data \in AsciiRequests : Exchange(data)

Exchange1E ==
    /\ handled < MaxRequests
    /\ \E data \in OneERequests : Exchange(data)

ExchangeMalformed ==
    /\ handled < MaxRequests
    /\ \E data \in MalformedRequests : Exchange(data)

(***************************************************************************)
(* GVSP wire header: status(u16) | block_id(u16) | format(u8) | id(u24)    *)
(***************************************************************************)
GVSPHeader(blk, fmt, pid) ==
    [block_id |-> blk % 65536, packet_format |-> fmt, packet_id |-> pid % 16777216]

Packet(hdr, data, pf, w, h) ==
    [block_id |-> hdr.block_id, packet_format |-> hdr.packet_format,
     packet_id |-> hdr.packet_id, data |-> data,
     pixel_format |-> pf, width |-> w, height |-> h]

(***************************************************************************)
(* GigEMockServer._send_image                                              *)
(***************************************************************************)
\* the while loop of _send_image: chunk k (1-based) starts at (k-1)*payload_size
RECURSIVE PayloadPackets(_, _, _, _)
PayloadPackets(image_data, payload_size, offset, packet_id) ==
    IF offset < Len(image_data)
    THEN {Packet(GVSPHeader(block_id, DATA_PAYLOAD, packet_id),
                 Slice(image_data, offset, offset + payload_size), 0, 0, 0)}
         \cup PayloadPackets(image_data, payload_size,
                             offset + payload_size, packet_id + 1)
    ELSE {}

NumPayloads(image_data, payload_size) ==
    (Len(image_data) + payload_size - 1) \div payload_size

SendImagePackets(image) ==
    LET pixel_format == IF Len(image.shape) = 3 THEN PIXEL_BGR8 ELSE PIXEL_MONO8
        image_data   == image.bytes
        height       == image.shape[1]
        width        == image.shape[2]
        payload_size == packet_size - GVSP_HEADER_SIZE
        n            == NumPayloads(image_data, payload_size)
    IN {Packet(GVSPHeader(block_id, DATA_LEADER, 0), <<>>,
               pixel_format, width, height)}
       \cup PayloadPackets(image_data, payload_size, 0, 1)
       \cup {Packet(GVSPHeader(block_id, DATA_TRAILER, n + 1), <<>>, 0, 0, height)}

\* one iteration of _stream_loop: fetch an image, send it, advance block id
StreamFrame ==
    /\ block_id < MaxBlocks
    /\ net = {}
    /\ \E image \in Images :
          /\ net' = SendImagePackets(image)
          /\ sent_image' = Some(image)
    /\ block_id' = block_id + 1
    /\ rx_log' = <<>>
    /\ UNCHANGED <<packet_size, current_block_id, packet_buffer,
                   image_buffer, image_ready>>
    /\ UNCHANGED <<mcVars, scanVars, hbVars, camVars, sendVars, mixVars, connVars, extVars>>

(***************************************************************************)
(* GigEVisionClient stream receiver                                        *)
(***************************************************************************)
Zeros(n) == [i \in 1..n |-> 0]

HandleLeader(p) ==
    /\ image_buffer' =
          IF p.pixel_format = PIXEL_BGR8
          THEN Some([shape |-> <<p.height, p.width, 3>>,
                     bytes |-> Zeros(p.height * p.width * 3)])
          ELSE Some([shape |-> <<p.height, p.width>>,
                     bytes |-> Zeros(p.height * p.width)])
    /\ packet_buffer' = <<>>
    /\ current_block_id' = p.block_id
    /\ UNCHANGED image_ready

\* mutant: a Payload of any block is stored
HandlePayloadOfAnyBlock(p) ==
    /\ packet_buffer' =
          [k \in DOMAIN packet_buffer \cup {p.packet_id} |->
              IF k = p.packet_id THEN p.data ELSE packet_buffer[k]]
    /\ UNCHANGED <<current_block_id, image_buffer, image_ready>>

HandlePayload(p) ==
    IF p.block_id # current_block_id
    THEN UNCHANGED <<current_block_id, packet_buffer, image_buffer, image_ready>>
    ELSE /\ packet_buffer' =
               [k \in DOMAIN packet_buffer \cup {p.packet_id} |->
                   IF k = p.packet_id THEN p.data ELSE packet_buffer[k]]
         /\ UNCHANGED <<current_block_id, image_buffer, image_ready>>

RECURSIVE Concat(_, _)
Concat(buf, ids) ==
    IF ids = <<>> THEN <<>> ELSE buf[Head(ids)] \o Concat(buf, Tail(ids))

HandleTrailer(p) ==
    IF p.block_id # current_block_id \/ image_buffer = None
    THEN UNCHANGED <<current_block_id, packet_buffer, image_buffer, image_ready>>
    ELSE LET sorted_ids    == SortedSeq(DOMAIN packet_buffer)
             image_data    == Concat(packet_buffer, sorted_ids)
             expected_size == Len(image_buffer[1].bytes)
         IN /\ IF Len(image_data) >= expected_size
               THEN /\ image_buffer' =
                          Some([shape |-> image_buffer[1].shape,
                                bytes |-> Slice(image_data, 0, expected_size)])
                    /\ image_ready' = TRUE
               ELSE UNCHANGED <<image_buffer, image_ready>>
            /\ packet_buffer' = <<>>
            /\ UNCHANGED current_block_id

ProcessGvspPacket(p) ==
    IF p.packet_format = DATA_LEADER THEN HandleLeader(p)
    ELSE IF p.packet_format = DATA_PAYLOAD THEN HandlePayload(p)
    ELSE IF p.packet_format = DATA_TRAILER THEN HandleTrailer(p)
    ELSE UNCHANGED <<current_block_id, packet_buffer, image_buffer, image_ready>>

\* _receive_loop: one datagram, in whatever order the transport hands it over
Receive ==
    \E p \in net :
       /\ net' = net \ {p}
       /\ ProcessGvspPacket(p)
       /\ rx_log' = Append(rx_log, <<p.packet_format, p.packet_id>>)
       /\ UNCHANGED <<packet_size, block_id, sent_image>>
       /\ UNCHANGED <<mcVars, scanVars, hbVars, camVars, sendVars, mixVars, connVars, extVars>>

\* marker logged in rx_log when get_image consumed the ready event
GET_IMAGE == 0

\* get_image: consumes the ready event
GetImage ==
    /\ image_ready
    /\ image_ready' = FALSE
    /\ rx_log' = Append(rx_log, <<GET_IMAGE, 0>>)
    /\ UNCHANGED <<packet_size, block_id, net, current_block_id, packet_buffer,
                   image_buffer, sent_image>>
    /\ UNCHANGED <<mcVars, scanVars, hbVars, camVars, sendVars, mixVars, connVars, extVars>>

InitGvsp ==
    /\ packet_size \in PacketSizes
    /\ block_id = 0
    /\ net = {}
    /\ current_block_id = 0
    /\ packet_buffer = <<>>
    /\ image_buffer = None
    /\ image_ready = FALSE
    /\ sent_image = None
    /\ rx_log = <<>>

(***************************************************************************)
(* Ladder scan thread against the request handler (ladder_engine.py)       *)
(***************************************************************************)
\* scans one behaviour runs
MaxScans == 2

\* requests the handler thread serves beside the scan thread
MaxScanRequests == 3

DeviceTS == DeviceTypes[12]

DeviceTC == DeviceTypes[11]

DeviceTN == DeviceTypes[21]

\* set value of OUT_T T0 (x100 ms)
TimerSetValue == 1

\* LadderProgram().LD("M0").ADD("D0", "D1", "D0").OUT_T(0, K)
TheProgram == <<"LD M0", "ADD D0 D1 D0", "OUT_T T0">>

TimerState(is_running, current_value, contact) ==
    [is_running |-> is_running, set_value |-> TimerSetValue,
     current_value |-> current_value, contact |-> contact]

\* add_program
AddProgram ==
    /\ programs = <<>>
    /\ programs' = <<TheProgram>>
    /\ UNCHANGED <<timers, scan_count, scan_pc, scan_current, scan_v1, scan_v2,
                   scan_view, req_pc, req_words, req_view, engineVars>>
    /\ UNCHANGED <<gvspVars, mcVars, hbVars, camVars, sendVars, mixVars, connVars, extVars>>

\* where the scan goes after _update_timers
AfterTimers == IF programs = <<>> THEN "idle" ELSE "ld"

\* _run_loop -> execute_scan: scan_count += 1, then _update_timers, which
\* makes two store accesses for a running timer
ScanBegin ==
    /\ ladder_running
    /\ scan_pc = "idle"
    /\ scan_count < MaxScans
    /\ scan_count' = scan_count + 1
    /\ scan_pc' = IF timers # None /\ timers[1].is_running THEN "upd_tn"
                  ELSE AfterTimers
    /\ UNCHANGED <<programs, timers, scan_current, scan_v1, scan_v2, scan_view,
                   req_pc, req_words, req_view, engineVars>>
    /\ UNCHANGED <<gvspVars, mcVars, hbVars, camVars, sendVars, mixVars, connVars, extVars>>

\* what a step of the scan thread leaves alone besides the store
ScanFrame ==
    /\ UNCHANGED <<programs, scan_count, req_pc, req_words, req_view, engineVars>>
    /\ UNCHANGED <<series, running, plc_state, ladder_running, request, response,
                   memory_before, state_before, handled>>
    /\ UNCHANGED <<gvspVars, hbVars, camVars, sendVars, mixVars, connVars, extVars>>

\* _update_timers: current_value = int(elapsed * 10), capped at set_value
\* with the contact closed; then set_word(TN)
UpdateTimerValue ==
    /\ scan_pc = "upd_tn"
    /\ \E cv \in timers[1].current_value..TimerSetValue :
          /\ timers' = Some(TimerState(TRUE, cv, cv >= TimerSetValue))
          /\ memory' = set_word(memory, DeviceTN, 0, cv)
    /\ scan_pc' = "upd_tc"
    /\ UNCHANGED <<scan_current, scan_v1, scan_v2, scan_view>>
    /\ ScanFrame

\* _update_timers: set_bit(TC)
UpdateTimerContact ==
    /\ scan_pc = "upd_tc"
    /\ memory' = set_bit(memory, DeviceTC, 0, timers[1].contact)
    /\ scan_pc' = AfterTimers
    /\ UNCHANGED <<timers, scan_current, scan_v1, scan_v2, scan_view>>
    /\ ScanFrame

\* LD M0: current = get_bit(M, 0); ADD runs only under current
ExecLD ==
    /\ scan_pc = "ld"
    /\ scan_current' = get_bit(memory, DeviceM, 0)
    /\ scan_pc' = IF get_bit(memory, DeviceM, 0) THEN "add_v1" ELSE "out_t"
    /\ UNCHANGED <<memory, timers, scan_v1, scan_v2, scan_view>>
    /\ ScanFrame

\* ADD: v1 = _get_value(operands[0])
ExecAddV1 ==
    /\ scan_pc = "add_v1"
    /\ scan_v1' = get_word(memory, DeviceD, 0)
    /\ scan_pc' = "add_v2"
    /\ scan_view' = memory
    /\ UNCHANGED <<memory, timers, scan_current, scan_v2>>
    /\ ScanFrame

\* ADD: v2 = _get_value(operands[1])
ExecAddV2 ==
    /\ scan_pc = "add_v2"
    /\ scan_v2' = get_word(memory, DeviceD, 1)
    /\ scan_pc' = "add_set"
    /\ scan_view' = memory
    /\ UNCHANGED <<memory, timers, scan_current, scan_v1>>
    /\ ScanFrame

\* ADD: _set_word(operands[2], (v1 + v2) & 0xFFFF)
ExecAddSet ==
    /\ scan_pc = "add_set"
    /\ memory' = set_word(memory, DeviceD, 0, (scan_v1 + scan_v2) % 65536)
    /\ scan_pc' = "out_t"
    /\ scan_view' = memory'
    /\ UNCHANGED <<timers, scan_current, scan_v1, scan_v2>>
    /\ ScanFrame

\* OUT_T -> _process_timer: the timer state, then set_bit(TS); with the
\* input off two more store accesses follow
ExecOutT ==
    /\ scan_pc = "out_t"
    /\ IF scan_current
       THEN /\ timers' = IF timers = None THEN Some(TimerState(TRUE, 0, FALSE))
                         ELSE Some([timers[1] EXCEPT !.is_running = TRUE])
            /\ memory' = set_bit(memory, DeviceTS, 0, TRUE)
            /\ scan_pc' = "idle"
       ELSE /\ timers' = Some(TimerState(FALSE, 0, FALSE))
            /\ memory' = set_bit(memory, DeviceTS, 0, FALSE)
            /\ scan_pc' = "rst_tc"
    /\ scan_view' = memory'
    /\ UNCHANGED <<scan_current, scan_v1, scan_v2>>
    /\ ScanFrame

\* _process_timer, input off: set_bit(TC, False)
ExecResetTC ==
    /\ scan_pc = "rst_tc"
    /\ memory' = set_bit(memory, DeviceTC, 0, FALSE)
    /\ scan_pc' = "rst_tn"
    /\ scan_view' = memory'
    /\ UNCHANGED <<timers, scan_current, scan_v1, scan_v2>>
    /\ ScanFrame

\* _process_timer, input off: set_word(TN, 0)
ExecResetTN ==
    /\ scan_pc = "rst_tn"
    /\ memory' = set_word(memory, DeviceTN, 0, 0)
    /\ scan_pc' = "idle"
    /\ scan_view' = memory'
    /\ UNCHANGED <<timers, scan_current, scan_v1, scan_v2>>
    /\ ScanFrame

\* requests whose store access is one call under the lock, and RUN
LadderRequests ==
    {build_batch_write_request(FrameQ, DeviceD, 0, v, FALSE) : v \in ValueLists}
    \cup {build_batch_write_request(FrameQ, DeviceM, 0, <<b>>, TRUE) : b \in {0, 1}}
    \cup {build_remote_control_request(FrameQ, REMOTE_RUN)}

\* the requests whose handler calls LadderEngine.stop
StopRequests ==
    {build_remote_control_request(FrameQ, c) :
        c \in {REMOTE_STOP, REMOTE_PAUSE, REMOTE_RESET}}

HandlerExchange ==
    /\ req_pc = 0
    /\ handled < MaxScanRequests
    /\ \E data \in LadderRequests : Exchange(data)

\* _cmd_batch_write, word unit on the bit device Y: the request is parsed and
\* the loop over its words begins
HandlerWordsToBitsBegin ==
    /\ req_pc = 0
    /\ handled < MaxScanRequests
    /\ \E v \in {w \in ValueLists : Len(w) >= 2} :
          /\ req_words' = v
          /\ request' = build_batch_write_request(FrameQ, DeviceTypes[7], 0, v, FALSE)
    /\ req_pc' = 1
    /\ req_view' = memory
    /\ memory_before' = memory
    /\ state_before' = <<plc_state, ladder_running>>
    /\ UNCHANGED <<series, running, memory, plc_state, ladder_running, response, handled>>
    /\ UNCHANGED <<programs, timers, scan_count, scan_pc, scan_current, scan_v1,
                   scan_v2, scan_view, engineVars>>
    /\ UNCHANGED <<gvspVars, hbVars, camVars, sendVars, mixVars, connVars, extVars>>

\* one set_bit_from_word of that loop; after the last the response is sent
HandlerWordsToBitsStep ==
    /\ req_pc > 0
    /\ memory' = set_bit_from_word(memory, DeviceTypes[7], (req_pc - 1) * 16,
                                   req_words[req_pc])
    /\ req_view' = memory'
    /\ IF req_pc < Len(req_words)
       THEN /\ req_pc' = req_pc + 1
            /\ UNCHANGED <<response, handled>>
       ELSE /\ req_pc' = 0
            /\ handled' = handled + 1
            /\ \E req \in {parse_request(request)} :
                  response' = build_response(END_OK, <<>>, req.network_no,
                                             req.pc_no, req.serial_no,
                                             req.frame_type, req.original_command)
    /\ UNCHANGED <<series, running, plc_state, ladder_running, request, memory_before,
                   state_before, req_words>>
    /\ UNCHANGED <<programs, timers, scan_count, scan_pc, scan_current, scan_v1,
                   scan_v2, scan_view, engineVars>>
    /\ UNCHANGED <<gvspVars, hbVars, camVars, sendVars, mixVars, connVars, extVars>>

\* _cmd_remote_stop / _pause / _reset up to the join of LadderEngine.stop:
\* self.state is assigned, then is_running = False and the stop event is set
HandlerStopBegin ==
    /\ req_pc = 0
    /\ handled < MaxScanRequests
    /\ \E data \in StopRequests :
          /\ request' = data
          /\ plc_state' = IF parse_request(data).command = REMOTE_PAUSE
                          THEN "PAUSE" ELSE "STOP"
    /\ ladder_running' = FALSE
    /\ req_pc' = -1
    /\ req_view' = memory
    /\ memory_before' = memory
    /\ state_before' = <<plc_state, ladder_running>>
    /\ UNCHANGED <<series, running, memory, response, handled>>
    /\ UNCHANGED <<programs, timers, scan_count, scan_pc, scan_current, scan_v1,
                   scan_v2, scan_view, req_words, engineVars>>
    /\ UNCHANGED <<gvspVars, hbVars, camVars, sendVars, mixVars, connVars, extVars>>

\* mutant: stop does not wait for the scan thread
join_returns_at_once(was_running, pc) == TRUE

\* stop: "if not self.is_running: return", else self._thread.join(timeout=1.0)
\* returns when _run_loop has left execute_scan; a scan is taken to be
\* shorter than the timeout
join_returns(was_running, pc) == was_running => pc = "idle"

\* the rest of the handler: for RESET reset_all and clear_all, then the answer
HandlerStopJoined ==
    /\ req_pc < 0
    /\ join_returns(state_before[2], scan_pc)
    /\ \E r \in {handle_request(ServerState(memory, plc_state, ladder_running),
                                 request)} :
          /\ response' = r.response
          /\ memory' = r.sv.memory
          /\ plc_state' = r.sv.plc_state
          /\ ladder_running' = r.sv.ladder_running
    /\ IF parse_request(request).command = REMOTE_RESET
       THEN timers' = None /\ counters' = None /\ scan_count' = 0 /\ prev_bits' = {}
       ELSE UNCHANGED <<timers, counters, scan_count, prev_bits>>
    /\ UNCHANGED <<seen, held_since>>
    /\ req_pc' = 0
    /\ req_view' = memory'
    /\ handled' = handled + 1
    /\ UNCHANGED <<series, running, request, memory_before, state_before>>
    /\ UNCHANGED <<programs, scan_pc, scan_current, scan_v1, scan_v2, scan_view,
                   req_words>>
    /\ UNCHANGED <<gvspVars, hbVars, camVars, sendVars, mixVars, connVars, extVars>>

\* LadderEngine.__init__; no request in progress
InitScan ==
    /\ programs = <<>>
    /\ timers = None
    /\ scan_count = 0
    /\ scan_pc = "idle"
    /\ scan_current = FALSE
    /\ scan_v1 = 0
    /\ scan_v2 = 0
    /\ scan_view = InitialMemory
    /\ req_pc = 0
    /\ req_words = <<>>
    /\ req_view = InitialMemory
    /\ counters = None
    /\ seen = <<>>
    /\ held_since = None
    /\ prev_bits = {}

(***************************************************************************)
(* GVCP heartbeat (gige_mock_server.py)                                    *)
(***************************************************************************)
\* _heartbeat_timeout, in milliseconds
HEARTBEAT_TIMEOUT_MS == 3000

\* _gvcp_socket.settimeout(1.0), in milliseconds
RECV_TIMEOUT_MS == 1000

\* the clock advances in steps of TickMs, MaxTicks times
TickMs == 500

MaxTicks == 12

\* time passes, at most up to the moment the pending recvfrom times out
Tick ==
    /\ now < MaxTicks * TickMs
    /\ now < recv_start + RECV_TIMEOUT_MS
    /\ now' = Min(now + TickMs, recv_start + RECV_TIMEOUT_MS)
    /\ UNCHANGED <<control_privilege, last_heartbeat, recv_start, cleared>>
    /\ UNCHANGED <<gvspVars, mcVars, scanVars, camVars, sendVars, mixVars, connVars, extVars>>

\* a datagram arrives while recvfrom waits
Arrives == now < recv_start + RECV_TIMEOUT_MS

\* _process_gvcp_packet, key 0x42, WRITEREG_CMD of CONTROL_CHANNEL_PRIVILEGE:
\* the heartbeat is refreshed and _write_register stores the privilege
RecvWritePrivilege ==
    /\ Arrives
    /\ \E value \in {0, 2} : control_privilege' = value
    /\ last_heartbeat' = now
    /\ recv_start' = now
    /\ UNCHANGED <<now, cleared>>
    /\ UNCHANGED <<gvspVars, mcVars, scanVars, camVars, sendVars, mixVars, connVars, extVars>>

\* _process_gvcp_packet, key 0x42, any other command
RecvRequest ==
    /\ Arrives
    /\ last_heartbeat' = now
    /\ recv_start' = now
    /\ UNCHANGED <<now, control_privilege, cleared>>
    /\ UNCHANGED <<gvspVars, mcVars, scanVars, camVars, sendVars, mixVars, connVars, extVars>>

\* _process_gvcp_packet, a datagram that is no request (key other than 0x42,
\* or too short to unpack): it returns before the heartbeat is refreshed
RecvOther ==
    /\ Arrives
    /\ recv_start' = now
    /\ UNCHANGED <<now, control_privilege, last_heartbeat, cleared>>
    /\ UNCHANGED <<gvspVars, mcVars, scanVars, camVars, sendVars, mixVars, connVars, extVars>>

\* _handle_gvcp, "except socket.timeout": the only place the heartbeat is checked
RecvTimeout ==
    /\ now = recv_start + RECV_TIMEOUT_MS
    /\ IF control_privilege > 0 /\ now - last_heartbeat > HEARTBEAT_TIMEOUT_MS
       THEN /\ control_privilege' = 0
            /\ cleared' = Some(<<now, last_heartbeat>>)
       ELSE UNCHANGED <<control_privilege, cleared>>
    /\ recv_start' = now
    /\ UNCHANGED <<now, last_heartbeat>>
    /\ UNCHANGED <<gvspVars, mcVars, scanVars, camVars, sendVars, mixVars, connVars, extVars>>

\* GigEMockServer.__init__ and start(): the first recvfrom begins at time 0
InitHeartbeat ==
    /\ now = 0
    /\ control_privilege = 0
    /\ last_heartbeat = 0
    /\ recv_start = 0
    /\ cleared = None

(***************************************************************************)
(* Ladder engine: whole scans of a program (ladder_engine.py)              *)
(***************************************************************************)
MaxProgramScans == 12

MaxChanges == 4

MaxPulses == 6

DeviceY == DeviceTypes[7]

DeviceCC == DeviceTypes[13]

DeviceCS == DeviceTypes[14]

DeviceCN == DeviceTypes[22]

Device(device_type, address) == [device_type |-> device_type, address |-> address]

Instruction(type, operands) == [type |-> type, operands |-> operands]

\* LD X0, OR Y0, ANI X1, OUT Y0, END
create_sample_program_1 ==
    <<Instruction("LD", <<Device(DeviceX, 0)>>), Instruction("OR", <<Device(DeviceY, 0)>>),
      Instruction("ANI", <<Device(DeviceX, 1)>>), Instruction("OUT", <<Device(DeviceY, 0)>>),
      Instruction("END", <<>>)>>

\* LD X0, OUT_T 0 20, LD TC0, OUT Y0, END
create_sample_program_2 ==
    <<Instruction("LD", <<Device(DeviceX, 0)>>), Instruction("OUT_T", <<0, 20>>),
      Instruction("LD", <<Device(DeviceTC, 0)>>), Instruction("OUT", <<Device(DeviceY, 0)>>),
      Instruction("END", <<>>)>>

\* LD X0, OUT_C 0 5, LD CC0, OUT Y0, LD X1, RST_C 0, END
create_sample_program_3 ==
    <<Instruction("LD", <<Device(DeviceX, 0)>>), Instruction("OUT_C", <<0, 5>>),
      Instruction("LD", <<Device(DeviceCC, 0)>>), Instruction("OUT", <<Device(DeviceY, 0)>>),
      Instruction("LD", <<Device(DeviceX, 1)>>), Instruction("RST_C", <<0>>),
      Instruction("END", <<>>)>>

\* LD X0, AND X1, LD X2, AND X3, ORB, OUT Y0, END
create_sample_program_5 ==
    <<Instruction("LD", <<Device(DeviceX, 0)>>), Instruction("AND", <<Device(DeviceX, 1)>>),
      Instruction("LD", <<Device(DeviceX, 2)>>), Instruction("AND", <<Device(DeviceX, 3)>>),
      Instruction("ORB", <<>>), Instruction("OUT", <<Device(DeviceY, 0)>>),
      Instruction("END", <<>>)>>

SamplePrograms ==
    {create_sample_program_1, create_sample_program_2, create_sample_program_3,
     create_sample_program_5}

\* TimerState with its start_time; times are in milliseconds
TimerStateAt(is_running, start_time, set_value, current_value, contact) ==
    [is_running |-> is_running, start_time |-> start_time, set_value |-> set_value,
     current_value |-> current_value, contact |-> contact]

CounterState(count, set_value, contact, prev_input) ==
    [count |-> count, set_value |-> set_value, contact |-> contact,
     prev_input |-> prev_input]

\* self.timers.get(n, TimerState()) and self.counters.get(n, CounterState());
\* the programs of the model use timer 0 and counter 0 only
TimerOf(tm) == IF tm = None THEN TimerStateAt(FALSE, 0, 0, 0, FALSE) ELSE tm[1]

CounterOf(ct) == IF ct = None THEN CounterState(0, 0, FALSE, FALSE) ELSE ct[1]

\* what a scan works on: the store, the engine's timers and counters, and
\* the locals of _execute_program
ScanState(mem, tm, ct, pb, current, stack, memory_stack) ==
    [mem |-> mem, timers |-> tm, counters |-> ct, prev_bits |-> pb, current |-> current,
     stack |-> stack, memory_stack |-> memory_stack]

\* mutant: outputs are never read back
engine_get_bit_inputs_only(st, device) ==
    device.device_type = DeviceX /\ get_bit(st.mem, device.device_type, device.address)

\* LadderEngine._get_bit
engine_get_bit(st, device) ==
    IF device.device_type = DeviceTC THEN TimerOf(st.timers).contact
    ELSE IF device.device_type = DeviceCC THEN CounterOf(st.counters).contact
    ELSE get_bit(st.mem, device.device_type, device.address)

\* mutant: whole seconds instead of tenths
ElapsedSeconds(t, start_time) == (t - start_time) \div 1000

\* int(elapsed * 10) with elapsed in seconds: tenths of a second, truncated
ElapsedTenths(t, start_time) == (t - start_time) \div 100

\* _update_timers at time t
update_timers(st, t) ==
    IF st.timers = None \/ ~st.timers[1].is_running THEN st
    ELSE LET state == st.timers[1]
             cv == ElapsedTenths(t, state.start_time)
             reached == cv >= state.set_value
             new == [state EXCEPT !.current_value = IF reached THEN state.set_value ELSE cv,
                                  !.contact = reached \/ state.contact]
         IN [st EXCEPT !.timers = Some(new),
                       !.mem = set_bit(set_word(st.mem, DeviceTN, 0, new.current_value),
                                       DeviceTC, 0, new.contact)]

\* mutant: with the input off the timer only pauses
process_timer_paused(st, timer_no, set_value, input_on, t) ==
    LET state == [TimerOf(st.timers) EXCEPT !.set_value = set_value]
    IN IF input_on
       THEN [st EXCEPT !.timers = Some(IF state.is_running THEN state
                                       ELSE [state EXCEPT !.is_running = TRUE,
                                                          !.start_time = t]),
                       !.mem = set_bit(st.mem, DeviceTS, timer_no, TRUE)]
       ELSE [st EXCEPT !.timers = Some([state EXCEPT !.is_running = FALSE]),
                       !.mem = set_bit(st.mem, DeviceTS, timer_no, FALSE)]

\* _process_timer at time t
process_timer(st, timer_no, set_value, input_on, t) ==
    LET state == [TimerOf(st.timers) EXCEPT !.set_value = set_value]
    IN IF input_on
       THEN [st EXCEPT !.timers = Some(IF state.is_running THEN state
                                       ELSE [state EXCEPT !.is_running = TRUE,
                                                          !.start_time = t]),
                       !.mem = set_bit(st.mem, DeviceTS, timer_no, TRUE)]
       ELSE [st EXCEPT !.timers = Some([state EXCEPT !.is_running = FALSE,
                                                     !.current_value = 0,
                                                     !.contact = FALSE]),
                       !.mem = set_word(set_bit(set_bit(st.mem, DeviceTS, timer_no, FALSE),
                                                DeviceTC, timer_no, FALSE),
                                        DeviceTN, timer_no, 0)]

\* mutant: the level of the input counts, not its edge
RisingLevel(input_on, prev_input) == input_on

\* "if input_on and not state.prev_input"
RisingEdge(input_on, prev_input) == input_on /\ ~prev_input

\* mutant: the contact closes one count late
ReachedAbove(count, set_value) == count > set_value

\* "if state.count >= state.set_value"
Reached(count, set_value) == count >= set_value

\* _process_counter
process_counter(st, counter_no, set_value, input_on) ==
    LET state == [CounterOf(st.counters) EXCEPT !.set_value = set_value]
        counts == RisingEdge(input_on, state.prev_input) /\ ~state.contact
        count == IF counts THEN state.count + 1 ELSE state.count
        reached == counts /\ Reached(count, state.set_value)
        mem1 == IF counts THEN set_word(st.mem, DeviceCN, counter_no, count) ELSE st.mem
        mem2 == IF reached THEN set_bit(mem1, DeviceCC, counter_no, TRUE) ELSE mem1
    IN [st EXCEPT !.counters = Some([state EXCEPT !.count = count,
                                                  !.contact = reached \/ state.contact,
                                                  !.prev_input = input_on]),
                  !.mem = set_bit(mem2, DeviceCS, counter_no, input_on)]

\* pop b, pop a, push r
Combine(stack, r) == Append(SubSeq(stack, 1, Len(stack) - 2), r)

\* an operand that is a Python int rather than a Device: the constant K<value>
Immediate(value) == Device(DeviceType("K", 0, 16), value)

\* LadderEngine._get_word
engine_get_word(st, device) ==
    IF device.device_type = DeviceTN THEN TimerOf(st.timers).current_value
    ELSE IF device.device_type = DeviceCN THEN CounterOf(st.counters).count
    ELSE get_word(st.mem, device.device_type, device.address)

\* LadderEngine._get_value: "isinstance(operand, int)" is the constant K
get_value(st, operand) ==
    IF operand.device_type.code = "K" THEN operand.address
    ELSE engine_get_word(st, operand)

\* LadderEngine._set_word on the store of the scan
engine_set_word(st, device, value) ==
    [st EXCEPT !.mem = set_word(@, device.device_type, device.address, value)]

\* mutant: the instruction ignores the logic current
takes_effect_always(current) == TRUE

\* "if current:" of MOV, ADD, SUB, MUL and DIV
takes_effect(current) == current

\* "result = v1 * v2" then "result & 0xFFFF"; the product of the low and of the
\* high byte of v2 are reduced separately, which keeps every intermediate
\* value below 2^31
mul_masked(v1, v2) ==
    (((v1 * (v2 % 256)) % 65536) + (((v1 * (v2 \div 256)) % 256) * 256)) % 65536

\* mutant: the pulse follows the level of the input
rising_level(current, prev) == current

\* PLS: "current and not prev"
rising_pulse(current, prev) == current /\ ~prev

\* PLF: "not current and prev"
falling_pulse(current, prev) == ~current /\ prev

\* "self._prev_bits[key] = current"; the key str(device) names one device
remember(pb, device, current) ==
    IF current THEN pb \cup {device} ELSE pb \ {device}

\* one branch of _execute_program's loop, at time t
execute_instruction(st, inst, t) ==
    LET op == inst.operands
        n == Len(st.stack)
    IN CASE inst.type = "LD" ->
              [st EXCEPT !.current = engine_get_bit(st, op[1]),
                         !.stack = Append(@, engine_get_bit(st, op[1]))]
         [] inst.type = "LDI" ->
              [st EXCEPT !.current = ~engine_get_bit(st, op[1]),
                         !.stack = Append(@, ~engine_get_bit(st, op[1]))]
         [] inst.type = "AND" -> [st EXCEPT !.current = @ /\ engine_get_bit(st, op[1])]
         [] inst.type = "ANI" -> [st EXCEPT !.current = @ /\ ~engine_get_bit(st, op[1])]
         [] inst.type = "OR" -> [st EXCEPT !.current = @ \/ engine_get_bit(st, op[1])]
         [] inst.type = "ORI" -> [st EXCEPT !.current = @ \/ ~engine_get_bit(st, op[1])]
         [] inst.type = "ANB" ->
              IF n < 2 THEN st
              ELSE [st EXCEPT !.current = st.stack[n - 1] /\ st.stack[n],
                              !.stack = Combine(@, st.stack[n - 1] /\ st.stack[n])]
         [] inst.type = "ORB" ->
              IF n < 2 THEN st
              ELSE [st EXCEPT !.current = st.stack[n - 1] \/ st.stack[n],
                              !.stack = Combine(@, st.stack[n - 1] \/ st.stack[n])]
         [] inst.type = "MPS" -> [st EXCEPT !.memory_stack = Append(@, st.current)]
         [] inst.type = "MRD" ->
              IF st.memory_stack = <<>> THEN st
              ELSE [st EXCEPT !.current = st.memory_stack[Len(st.memory_stack)]]
         [] inst.type = "MPP" ->
              IF st.memory_stack = <<>> THEN st
              ELSE [st EXCEPT !.current = st.memory_stack[Len(st.memory_stack)],
                              !.memory_stack = SubSeq(@, 1, Len(@) - 1)]
         [] inst.type = "OUT" ->
              [st EXCEPT !.mem = set_bit(@, op[1].device_type, op[1].address, st.current)]
         [] inst.type = "SET" ->
              IF ~st.current THEN st
              ELSE [st EXCEPT !.mem = set_bit(@, op[1].device_type, op[1].address, TRUE)]
         [] inst.type = "RST" ->
              IF ~st.current THEN st
              ELSE [st EXCEPT !.mem = set_bit(@, op[1].device_type, op[1].address, FALSE)]
         [] inst.type = "PLS" ->
              [st EXCEPT !.mem = set_bit(@, op[1].device_type, op[1].address,
                                         rising_pulse(st.current, op[1] \in st.prev_bits)),
                         !.prev_bits = remember(@, op[1], st.current)]
         [] inst.type = "PLF" ->
              [st EXCEPT !.mem = set_bit(@, op[1].device_type, op[1].address,
                                         falling_pulse(st.current, op[1] \in st.prev_bits)),
                         !.prev_bits = remember(@, op[1], st.current)]
         [] inst.type = "OUT_T" -> process_timer(st, op[1], op[2], st.current, t)
         [] inst.type = "OUT_C" -> process_counter(st, op[1], op[2], st.current)
         [] inst.type = "RST_T" ->
              IF ~st.current \/ st.timers = None THEN st
              ELSE [st EXCEPT !.timers = Some(TimerOf(None)),
                              !.mem = set_word(set_bit(set_bit(@, DeviceTC, op[1], FALSE),
                                                       DeviceTS, op[1], FALSE),
                                               DeviceTN, op[1], 0)]
         [] inst.type = "RST_C" ->
              IF ~st.current \/ st.counters = None THEN st
              ELSE [st EXCEPT !.counters = Some(CounterOf(None)),
                              !.mem = set_word(set_bit(set_bit(@, DeviceCC, op[1], FALSE),
                                                       DeviceCS, op[1], FALSE),
                                               DeviceCN, op[1], 0)]
         [] inst.type = "MOV" ->
              IF ~takes_effect(st.current) THEN st
              ELSE engine_set_word(st, op[2], get_value(st, op[1]))
         [] inst.type = "ADD" ->
              IF ~takes_effect(st.current) THEN st
              ELSE engine_set_word(st, op[3],
                                   (get_value(st, op[1]) + get_value(st, op[2])) % 65536)
         [] inst.type = "SUB" ->
              IF ~takes_effect(st.current) THEN st
              ELSE engine_set_word(st, op[3],
                                   (get_value(st, op[1]) - get_value(st, op[2])) % 65536)
         [] inst.type = "MUL" ->
              IF ~takes_effect(st.current) THEN st
              ELSE engine_set_word(st, op[3],
                                   mul_masked(get_value(st, op[1]), get_value(st, op[2])))
         [] inst.type = "DIV" ->
              IF ~takes_effect(st.current) \/ get_value(st, op[2]) = 0 THEN st
              ELSE engine_set_word(st, op[3],
                                   get_value(st, op[1]) \div get_value(st, op[2]))
         [] OTHER -> st

\* the loop of _execute_program from instruction i on; END leaves it
RECURSIVE execute_from(_, _, _, _)
execute_from(st, instructions, i, t) ==
    IF i > Len(instructions) \/ instructions[i].type = "END" THEN st
    ELSE execute_from(execute_instruction(st, instructions[i], t), instructions, i + 1, t)

\* _execute_program: stack, memory_stack and current start empty / False
execute_program(st, program, t) ==
    execute_from([st EXCEPT !.current = FALSE, !.stack = <<>>, !.memory_stack = <<>>],
                 program, 1, t)

RECURSIVE execute_programs(_, _, _)
execute_programs(st, progs, t) ==
    IF progs = <<>> THEN st
    ELSE execute_programs(execute_program(st, Head(progs), t), Tail(progs), t)

\* execute_scan at time t: _update_timers, then every program in order
execute_scan(mem, tm, ct, pb, progs, t) ==
    execute_programs(update_timers(ScanState(mem, tm, ct, pb, FALSE, <<>>, <<>>), t), progs, t)

\* <<X0, X1>> as the store holds them
InputsNow == <<get_bit(memory, DeviceX, 0), get_bit(memory, DeviceX, 1)>>

\* the history after a scan that read the inputs x
Noted(x) == IF seen # <<>> /\ seen[Len(seen)] = x THEN seen ELSE Append(seen, x)

\* _run_loop -> execute_scan as one step: scan_count += 1, timers, programs
ExecuteScan ==
    /\ ladder_running
    /\ scan_pc = "idle"
    /\ scan_count < MaxProgramScans
    /\ scan_count' = scan_count + 1
    /\ \E st \in {execute_scan(memory, timers, counters, prev_bits, programs, now)} :
          /\ memory' = st.mem
          /\ timers' = st.timers
          /\ counters' = st.counters
          /\ prev_bits' = st.prev_bits
    /\ seen' = Noted(InputsNow)
    /\ held_since' = IF ~InputsNow[1] THEN None
                     ELSE IF held_since = None THEN Some(now) ELSE held_since
    /\ scan_view' = memory'
    /\ UNCHANGED <<programs, scan_pc, scan_current, scan_v1, scan_v2, req_pc, req_words,
                   req_view>>
    /\ UNCHANGED <<series, running, plc_state, ladder_running, request, response,
                   memory_before, state_before, handled>>
    /\ UNCHANGED <<gvspVars, hbVars, camVars, sendVars, mixVars, connVars, extVars>>

\* number of false-to-true transitions of X0 in the history
RECURSIVE Rises(_)
Rises(h) ==
    IF h = <<>> THEN 0
    ELSE Rises(SubSeq(h, 1, Len(h) - 1))
         + (IF h[Len(h)][1] /\ (Len(h) = 1 \/ ~h[Len(h) - 1][1]) THEN 1 ELSE 0)

\* X1 has been false at every scan so far
X1NeverSeen == \A i \in 1..Len(seen) : ~seen[i][2]

\* the input devices a program reads
InputsOf(program) ==
    {inst.operands[1].address : inst \in
        {program[i] : i \in {j \in 1..Len(program) :
            /\ program[j].type \in {"LD", "LDI", "AND", "ANI", "OR", "ORI"}
            /\ program[j].operands[1].device_type = DeviceX}}}

\* PLCDeviceManager.set_bit on an input of the loaded program, from outside
\* the engine (a client's bit write, the GUI); the first MaxChanges input
\* combinations are free, after them X0 may go on pulsing while X1 is untouched
SetInput ==
    /\ programs # <<>>
    /\ \E a \in InputsOf(programs[1]), value \in BOOLEAN :
          /\ get_bit(memory, DeviceX, a) # value
          /\ \/ Len(seen) < MaxChanges
             \/ a = 0 /\ X1NeverSeen /\ ~InputsNow[2] /\ Rises(seen) < MaxPulses
          /\ memory' = set_bit(memory, DeviceX, a, value)
    /\ UNCHANGED <<series, running, plc_state, ladder_running, request, response,
                   memory_before, state_before, handled>>
    /\ UNCHANGED <<gvspVars, scanVars, hbVars, camVars, sendVars, mixVars, connVars, extVars>>

\* time passes; only a running timer reads the clock
Advance ==
    /\ timers # None /\ timers[1].is_running
    /\ now < MaxTicks * TickMs
    /\ now' = now + TickMs
    /\ UNCHANGED <<control_privilege, last_heartbeat, recv_start, cleared>>
    /\ UNCHANGED <<gvspVars, mcVars, scanVars, camVars, sendVars, mixVars, connVars, extVars>>

(***************************************************************************)
(* GVSP: frames whose datagrams overtake each other                        *)
(***************************************************************************)
\* two images of two pixels that differ in every pixel
MixImages == {image \in Images : image.shape = <<1, 2>> /\ image.bytes[1] # image.bytes[2]}

\* one iteration of _stream_loop while datagrams of the frame before are still
\* on their way
StreamOverlapped ==
    /\ block_id < MaxBlocks
    /\ Cardinality({p.block_id : p \in net}) <= 1
    /\ \E image \in MixImages :
          /\ net' = net \cup SendImagePackets(image)
          /\ sent_image' = Some(image)
          /\ sent_frames' = Append(sent_frames, image)
    /\ block_id' = block_id + 1
    /\ UNCHANGED <<packet_size, current_block_id, packet_buffer, image_buffer,
                   image_ready, rx_log, assembled, foreign_dropped>>
    /\ UNCHANGED <<mcVars, scanVars, hbVars, camVars, sendVars, connVars, extVars>>

\* the Trailer p makes _handle_trailer hand a frame over
Completes(p) ==
    /\ p.packet_format = DATA_TRAILER
    /\ p.block_id = current_block_id
    /\ image_buffer # None
    /\ Len(Concat(packet_buffer, SortedSeq(DOMAIN packet_buffer))) >= Len(image_buffer[1].bytes)

\* _receive_loop: one datagram of any of the frames on their way
ReceiveMixed ==
    \E p \in net :
       /\ net' = net \ {p}
       /\ ProcessGvspPacket(p)
       /\ assembled' = IF Completes(p)
                       THEN Some([block |-> p.block_id, image |-> image_buffer'[1]])
                       ELSE assembled
       /\ foreign_dropped' = (foreign_dropped \/ (p.packet_format # DATA_LEADER /\ p.block_id # current_block_id))
       /\ UNCHANGED <<packet_size, block_id, sent_image, rx_log, sent_frames>>
       /\ UNCHANGED <<mcVars, scanVars, hbVars, camVars, sendVars, connVars, extVars>>

IdleMix ==
    /\ sent_frames = <<>>
    /\ assembled = None
    /\ foreign_dropped = FALSE

(***************************************************************************)
(* GigE mock camera: _send_image, datagram by datagram                     *)
(***************************************************************************)
\* datagrams of one frame the model follows before it stops counting
MaxPackets == 6

\* config.packet_size from one below the header size up to a chunk of MaxChunk
SendPacketSizes == (GVSP_HEADER_SIZE - 1)..(GVSP_HEADER_SIZE + MaxChunk)

\* a Python slice index: negative indices count from the end, all are clamped
SliceIndex(s, i) == IF i < 0 THEN (IF i + Len(s) < 0 THEN 0 ELSE i + Len(s)) ELSE Min(i, Len(s))

\* s[lo:hi] of Python, for indices of either sign
PySlice(s, lo, hi) ==
    IF SliceIndex(s, lo) >= SliceIndex(s, hi) THEN <<>>
    ELSE SubSeq(s, SliceIndex(s, lo) + 1, SliceIndex(s, hi))

\* _send_image up to the payload loop: the Leader is sent
SendLeader ==
    /\ send_pc = "idle"
    /\ block_id < MaxBlocks
    /\ \E image \in Images :
          /\ send_image' = image
          /\ emitted' = <<Packet(GVSPHeader(block_id, DATA_LEADER, 0), <<>>,
                                 IF Len(image.shape) = 3 THEN PIXEL_BGR8 ELSE PIXEL_MONO8,
                                 image.shape[2], image.shape[1])>>
    /\ send_offset' = 0
    /\ send_packet_id' = 1
    /\ send_pc' = "payload"
    /\ UNCHANGED <<gvspVars, mcVars, scanVars, hbVars, camVars, mixVars, connVars, extVars>>

\* one iteration of "while offset < len(image_data)"
SendPayload ==
    /\ send_pc = "payload"
    /\ send_offset < Len(send_image.bytes)
    /\ Len(emitted) < MaxPackets
    /\ emitted' = Append(emitted,
                         Packet(GVSPHeader(block_id, DATA_PAYLOAD, send_packet_id),
                                PySlice(send_image.bytes, send_offset,
                                        send_offset + (packet_size - GVSP_HEADER_SIZE)), 0, 0, 0))
    /\ send_offset' = send_offset + (packet_size - GVSP_HEADER_SIZE)
    /\ send_packet_id' = send_packet_id + 1
    /\ UNCHANGED <<send_pc, send_image>>
    /\ UNCHANGED <<gvspVars, mcVars, scanVars, hbVars, camVars, mixVars, connVars, extVars>>

\* the loop is left: the Trailer is sent, and _stream_loop advances _block_id
SendTrailer ==
    /\ send_pc = "payload"
    /\ send_offset >= Len(send_image.bytes)
    /\ emitted' = Append(emitted,
                         Packet(GVSPHeader(block_id, DATA_TRAILER, send_packet_id), <<>>,
                                0, 0, send_image.shape[1]))
    /\ send_pc' = "idle"
    /\ block_id' = block_id + 1
    /\ UNCHANGED <<send_image, send_offset, send_packet_id>>
    /\ UNCHANGED <<packet_size, net, current_block_id, packet_buffer, image_buffer,
                   image_ready, sent_image, rx_log>>
    /\ UNCHANGED <<mcVars, scanVars, hbVars, camVars, mixVars, connVars, extVars>>

\* no frame is being sent
IdleSend ==
    /\ send_pc = "idle"
    /\ send_image = [shape |-> <<1, 1>>, bytes |-> <<0>>]
    /\ send_offset = 0
    /\ send_packet_id = 0
    /\ emitted = <<>>

(***************************************************************************)
(* GigE mock camera: control channel (gige_mock_server.py)                 *)
(***************************************************************************)
\* datagrams one behaviour of the control channel receives
MaxGvcpRequests == 3

\* sender threads one behaviour starts
MaxSenders == 2

\* frames one behaviour emits
MaxFrames == 2

\* the clock of the stream channel advances at most MaxStreamTicks times TickMs
MaxStreamTicks == 6

\* class BootstrapRegister as gige_mock_server.py imports it
BootstrapRegister ==
    [MANUFACTURER_NAME |-> 72, MODEL_NAME |-> 104, DEVICE_VERSION |-> 136,
     SERIAL_NUMBER |-> 216, USER_DEFINED_NAME |-> 232,
     ACQUISITION_START |-> 292, ACQUISITION_STOP |-> 296,
     HEARTBEAT_TIMEOUT |-> 2360, CONTROL_CHANNEL_PRIVILEGE |-> 2560,
     STREAM_CHANNEL_0_PORT |-> 3328, STREAM_CHANNEL_0_PACKET_SIZE |-> 3332,
     STREAM_CHANNEL_0_PACKET_DELAY |-> 3336, STREAM_CHANNEL_0_DEST_IP |-> 3352]

GVCPCommand ==
    [DISCOVERY_CMD |-> 2, DISCOVERY_ACK |-> 3, READREG_CMD |-> 128,
     READREG_ACK |-> 129, WRITEREG_CMD |-> 130, WRITEREG_ACK |-> 131,
     READMEM_CMD |-> 132, READMEM_ACK |-> 133, WRITEMEM_CMD |-> 134]

GVCPStatus == [SUCCESS |-> 0, NOT_IMPLEMENTED |-> 32769, INVALID_PARAMETER |-> 32770]

\* struct.pack('>H', v) and struct.pack('>I', v)
PackBE16(v) == <<(v \div 256) % 256, v % 256>>

PackBE32(v) == <<(v \div 16777216) % 256, (v \div 65536) % 256, (v \div 256) % 256, v % 256>>

RECURSIVE UnpackBE_loop(_, _, _)
UnpackBE_loop(b, i, acc) ==
    IF i > Len(b) THEN acc ELSE UnpackBE_loop(b, i + 1, acc * 256 + b[i])

\* struct.unpack('>H', b)[0] and struct.unpack('>I', b)[0]; b has the right length
UnpackBE(b) == UnpackBE_loop(b, 1, 0)

\* pad_string(s, length): the bytes of s in a field of length bytes, null-padded
pad_string(s, length) == [i \in 1..length |-> IF i <= Len(s) THEN s[i] ELSE 0]

RECURSIVE LastNonZero(_, _)
LastNonZero(b, n) == IF n = 0 \/ b[n] # 0 THEN n ELSE LastNonZero(b, n - 1)

\* bytes.rstrip(b'\x00')
rstrip_nul(b) == SubSeq(b, 1, LastNonZero(b, Len(b)))

\* MockCameraConfig: the identity strings, as byte values, and 1 / frame_rate in ms
MockCameraConfig(vendor, model, serial_number, user_defined_name, device_version, frame_interval) ==
    [vendor |-> vendor, model |-> model, serial_number |-> serial_number,
     user_defined_name |-> user_defined_name, device_version |-> device_version,
     frame_interval |-> frame_interval]

\* get_local_mac(), as six bytes
LocalMac == <<2, 17, 34, 51, 68, 85>>

\* ip_to_int(get_local_ip()), here 10.0.0.5
LocalIp == 167772165

\* "Mock Camera for Testing"
ManufacturerInfo == <<77, 111, 99, 107, 32, 67, 97, 109, 101, 114, 97, 32, 102, 111, 114, 32, 84, 101, 115, 116, 105, 110, 103>>

\* _string_registers, filled by _init_registers
string_registers ==
    (BootstrapRegister.MANUFACTURER_NAME :> config.vendor)
    @@ (BootstrapRegister.MODEL_NAME :> config.model)
    @@ (BootstrapRegister.DEVICE_VERSION :> config.device_version)
    @@ (BootstrapRegister.SERIAL_NUMBER :> config.serial_number)
    @@ (BootstrapRegister.USER_DEFINED_NAME :> config.user_defined_name)

\* _registers as far as requests of the model address it, after _init_registers
InitialRegisters ==
    (BootstrapRegister.HEARTBEAT_TIMEOUT :> HEARTBEAT_TIMEOUT_MS)
    @@ (BootstrapRegister.CONTROL_CHANNEL_PRIVILEGE :> 0)
    @@ (BootstrapRegister.STREAM_CHANNEL_0_PORT :> 0)

\* mutant: every address reads as an unknown one
read_register_unknown(address) == 0

\* _read_register
read_register(address) ==
    IF address \in DOMAIN string_registers
    THEN UnpackBE(pad_string(string_registers[address], 4))
    ELSE IF address \in DOMAIN registers THEN registers[address] ELSE 0

\* GVCPAckHeader and the data sent after it
Ack(status, command, ack_id, data) ==
    [status |-> status, command |-> command, length |-> Len(data), ack_id |-> ack_id, data |-> data]

\* GVCPHeader.unpack: key(u8) flag(u8) command(u16) length(u16) req_id(u16)
GVCPHeader(data) ==
    IF Len(data) < 8 THEN None
    ELSE Some([key |-> data[1], flag |-> data[2], command |-> UnpackBE(SubSeq(data, 3, 4)),
               length |-> UnpackBE(SubSeq(data, 5, 6)), req_id |-> UnpackBE(SubSeq(data, 7, 8))])

\* _handle_discovery: the 256 bytes of the Ack, by their offsets
DiscoveryAckData ==
    [k \in 1..256 |->
        LET o == k - 1
        IN  IF o \in 0..1 THEN PackBE16(1)[o + 1]
            ELSE IF o \in 2..3 THEN PackBE16(2)[o - 1]
            ELSE IF o \in 10..15 THEN LocalMac[o - 9]
            ELSE IF o \in 16..19 THEN PackBE32(7)[o - 15]
            ELSE IF o \in 20..23 THEN PackBE32(5)[o - 19]
            ELSE IF o \in 36..39 THEN PackBE32(LocalIp)[o - 35]
            ELSE IF o \in 52..55 THEN <<255, 255, 255, 0>>[o - 51]
            ELSE IF o \in 72..103 THEN pad_string(config.vendor, 32)[o - 71]
            ELSE IF o \in 104..135 THEN pad_string(config.model, 32)[o - 103]
            ELSE IF o \in 136..167 THEN pad_string(config.device_version, 32)[o - 135]
            ELSE IF o \in 168..215 THEN pad_string(ManufacturerInfo, 48)[o - 167]
            ELSE IF o \in 216..231 THEN pad_string(config.serial_number, 16)[o - 215]
            ELSE IF o \in 232..247 THEN pad_string(config.user_defined_name, 16)[o - 231]
            ELSE 0]

handle_discovery(header) ==
    <<Ack(GVCPStatus.SUCCESS, GVCPCommand.DISCOVERY_ACK, header.req_id, DiscoveryAckData)>>

RECURSIVE readreg_values(_, _)
\* the loop of _handle_readreg; struct.unpack raises on a slice shorter than 4
readreg_values(data, i) ==
    IF i >= Len(data) THEN Some(<<>>)
    ELSE IF Len(data) - i < 4 THEN None
    ELSE LET rest == readreg_values(data, i + 4)
         IN  IF rest = None THEN None
             ELSE Some(PackBE32(read_register(UnpackBE(Slice(data, i, i + 4)))) \o rest[1])

\* _handle_readreg: the Acks it sends (none when the loop raises)
handle_readreg(header, data) ==
    IF Len(data) < 4
    THEN <<Ack(GVCPStatus.INVALID_PARAMETER, GVCPCommand.READREG_ACK, header.req_id, <<>>)>>
    ELSE LET response_data == readreg_values(data, 0)
         IN  IF response_data = None THEN <<>>
             ELSE <<Ack(GVCPStatus.SUCCESS, GVCPCommand.READREG_ACK, header.req_id, response_data[1])>>

\* _handle_readmem: the Acks it sends
handle_readmem(header, data) ==
    IF Len(data) < 8
    THEN <<Ack(GVCPStatus.INVALID_PARAMETER, GVCPCommand.READMEM_ACK, header.req_id, <<>>)>>
    ELSE LET mem_addr == UnpackBE(Slice(data, 0, 4))
             count    == UnpackBE(Slice(data, 4, 8))
             response_data == IF mem_addr \in DOMAIN string_registers
                              THEN pad_string(string_registers[mem_addr], count)
                              ELSE [k \in 1..count |-> 0]
         IN  <<Ack(GVCPStatus.SUCCESS, GVCPCommand.READMEM_ACK, header.req_id,
                   PackBE32(mem_addr) \o response_data)>>

\* the data after the 8 header bytes: data[8:]
GvcpPayload(data) == Slice(data, 8, Len(data))

\* one _stream_loop thread: where it is, when its sleep ends, its last_frame_time
Sender(pc, wake, last_frame_time) == [pc |-> pc, wake |-> wake, last_frame_time |-> last_frame_time]

\* _stream_thread.join(timeout=2.0), in milliseconds
JOIN_TIMEOUT_MS == 2000

\* registers and everything a register write can touch
SideEffectState == <<registers, client_ip, client_port, control_privilege, streaming, Len(senders)>>

\* the destination test of _start_streaming
destination_set == client_ip # None /\ client_port # 0

\* _start_streaming
start_streaming ==
    IF streaming \/ ~destination_set
    THEN UNCHANGED <<streaming, stream_thread, senders, quiet>>
    ELSE /\ Len(senders) < MaxSenders
         /\ streaming' = TRUE
         /\ senders' = Append(senders, Sender("test", 0, now))
         /\ stream_thread' = Len(senders) + 1
         /\ quiet' = FALSE

\* the control thread is back in recvfrom
gvcp_returns(sent) ==
    /\ acks' = sent
    /\ gvcp_pc' = "recv"
    /\ recv_start' = now
    /\ UNCHANGED gvcp_i

\* _handle_writereg after the entry before offset i: the next entry, or the Ack
writereg_continues(i) ==
    LET data   == GvcpPayload(gvcp_req)
        header == GVCPHeader(gvcp_req)[1]
    IN  IF i < Len(data)
        THEN /\ gvcp_pc' = "write"
             /\ gvcp_i' = i
             /\ UNCHANGED <<acks, recv_start>>
        ELSE gvcp_returns(<<Ack(GVCPStatus.SUCCESS, GVCPCommand.WRITEREG_ACK, header.req_id,
                                PackBE32(Len(data) \div 8))>>)

\* mutant: any written value triggers
requested_by_any(value) == TRUE

\* "if value == 1" of the acquisition registers
requested(value) == value = 1

\* _write_register, up to the join of _stop_streaming
write_register(address, value, i) ==
    /\ registers' = (address :> value) @@ registers
    /\ client_port' = IF address = BootstrapRegister.STREAM_CHANNEL_0_PORT THEN value ELSE client_port
    /\ client_ip' = IF address = BootstrapRegister.STREAM_CHANNEL_0_DEST_IP THEN Some(value) ELSE client_ip
    /\ control_privilege' = IF address = BootstrapRegister.CONTROL_CHANNEL_PRIVILEGE THEN value ELSE control_privilege
    /\ IF address = BootstrapRegister.ACQUISITION_START /\ requested(value)
       THEN start_streaming /\ writereg_continues(i + 8) /\ UNCHANGED join_start
       ELSE IF address = BootstrapRegister.ACQUISITION_STOP /\ requested(value) /\ streaming
       THEN /\ streaming' = FALSE
            /\ IF stream_thread # 0
               THEN /\ gvcp_pc' = "join"
                    /\ join_start' = now
                    /\ gvcp_i' = i + 8
                    /\ UNCHANGED <<acks, recv_start, stream_thread, quiet>>
               ELSE /\ writereg_continues(i + 8)
                    /\ quiet' = TRUE
                    /\ UNCHANGED <<join_start, stream_thread>>
            /\ UNCHANGED senders
       ELSE /\ writereg_continues(i + 8)
            /\ UNCHANGED <<streaming, stream_thread, senders, quiet, join_start>>

\* one iteration of the loop of _handle_writereg; struct.unpack raises on a short
\* slice and _process_gvcp_packet logs the exception
GvcpWriteEntry ==
    /\ gvcp_pc = "write"
    /\ LET data == GvcpPayload(gvcp_req)
       IN  IF Len(data) - gvcp_i < 8
           THEN /\ gvcp_returns(<<>>)
                /\ UNCHANGED <<registers, client_ip, client_port, control_privilege,
                               streaming, stream_thread, senders, quiet, join_start>>
           ELSE write_register(UnpackBE(Slice(data, gvcp_i, gvcp_i + 4)),
                               UnpackBE(Slice(data, gvcp_i + 4, gvcp_i + 8)), gvcp_i)
    /\ UNCHANGED <<config, cam_running, gvcp_req, gvcp_handled, frames_sent, cam_before>>
    /\ UNCHANGED <<now, last_heartbeat, cleared>>
    /\ UNCHANGED <<gvspVars, mcVars, scanVars, sendVars, mixVars, connVars, extVars>>

\* Thread.join(timeout): mutant that returns only when the thread has ended
join_waits_for_thread(thread_pc, waited) == thread_pc = "done"

\* Thread.join(timeout=2.0) returns when the thread has ended or the time is up
join_timeout(thread_pc, waited) == thread_pc = "done" \/ waited >= JOIN_TIMEOUT_MS

\* _stop_streaming after the join, and the rest of _handle_writereg
GvcpJoinReturns ==
    /\ gvcp_pc = "join"
    /\ join_timeout(senders[stream_thread].pc, now - join_start)
    /\ stream_thread' = 0
    /\ quiet' = TRUE
    /\ writereg_continues(gvcp_i)
    /\ UNCHANGED <<config, cam_running, registers, client_ip, client_port, streaming, senders,
                   gvcp_req, join_start, gvcp_handled, frames_sent, cam_before>>
    /\ UNCHANGED <<now, control_privilege, last_heartbeat, cleared>>
    /\ UNCHANGED <<gvspVars, mcVars, scanVars, sendVars, mixVars, connVars, extVars>>

\* _process_gvcp_packet: the Acks of a datagram that is answered at once, or
\* None for a Write-Register that enters the loop of _handle_writereg
process_gvcp_packet(data) ==
    LET header == GVCPHeader(data)
        body   == GvcpPayload(data)
    IN  IF header = None THEN Some(<<>>)
        ELSE IF header[1].key # 66 THEN Some(<<>>)
        ELSE IF header[1].command = GVCPCommand.DISCOVERY_CMD THEN Some(handle_discovery(header[1]))
        ELSE IF header[1].command = GVCPCommand.READREG_CMD THEN Some(handle_readreg(header[1], body))
        ELSE IF header[1].command = GVCPCommand.WRITEREG_CMD
        THEN IF Len(body) < 8
             THEN Some(<<Ack(GVCPStatus.INVALID_PARAMETER, GVCPCommand.WRITEREG_ACK, header[1].req_id, <<>>)>>)
             ELSE None
        ELSE IF header[1].command = GVCPCommand.READMEM_CMD THEN Some(handle_readmem(header[1], body))
        ELSE Some(<<Ack(GVCPStatus.NOT_IMPLEMENTED, header[1].command + 1, header[1].req_id, <<>>)>>)

\* the heartbeat is refreshed once the key is found to be 0x42
refreshes_heartbeat(data) == GVCPHeader(data) # None /\ GVCPHeader(data)[1].key = 66

\* _handle_gvcp: recvfrom hands over a datagram and _process_gvcp_packet runs
handle_gvcp(data) ==
    /\ cam_running
    /\ gvcp_pc = "recv"
    /\ gvcp_handled < MaxGvcpRequests
    /\ Arrives
    /\ gvcp_req' = data
    /\ gvcp_handled' = gvcp_handled + 1
    /\ cam_before' = SideEffectState
    /\ last_heartbeat' = IF refreshes_heartbeat(data) THEN now ELSE last_heartbeat
    /\ \E sent \in {process_gvcp_packet(data)} :
          IF sent = None
          THEN /\ gvcp_pc' = "write"
               /\ gvcp_i' = 0
               /\ acks' = <<>>
               /\ UNCHANGED recv_start
          ELSE gvcp_returns(sent[1])
    /\ UNCHANGED <<config, cam_running, registers, client_ip, client_port, streaming,
                   stream_thread, senders, join_start, frames_sent, quiet>>
    /\ UNCHANGED <<now, control_privilege, cleared>>
    /\ UNCHANGED <<gvspVars, mcVars, scanVars, sendVars, mixVars, connVars>>

\* the control thread's datagram comes from a peer outside the model
GvcpReceive(data) == handle_gvcp(data) /\ UNCHANGED extVars

\* senders with thread t replaced
WithSender(t, s) == [senders EXCEPT ![t] = s]

\* _stream_loop: the test of "while self._streaming" and the frame-rate control
SenderTest(t) ==
    /\ senders[t].pc = "test"
    /\ senders' =
          IF ~streaming THEN WithSender(t, Sender("done", 0, senders[t].last_frame_time))
          ELSE IF now - senders[t].last_frame_time < config.frame_interval
          THEN WithSender(t, Sender("sleep", senders[t].last_frame_time + config.frame_interval,
                                    senders[t].last_frame_time))
          ELSE WithSender(t, Sender("send", 0, now))
    /\ UNCHANGED <<config, cam_running, registers, client_ip, client_port, streaming, stream_thread,
                   gvcp_pc, gvcp_req, gvcp_i, join_start, acks, gvcp_handled, frames_sent,
                   quiet, cam_before>>
    /\ UNCHANGED <<gvspVars, mcVars, scanVars, hbVars, sendVars, mixVars, connVars, extVars>>

\* _stream_loop: time.sleep(frame_interval - elapsed) is over
SenderWake(t) ==
    /\ senders[t].pc = "sleep"
    /\ now >= senders[t].wake
    /\ senders' = WithSender(t, Sender("send", 0, now))
    /\ UNCHANGED <<config, cam_running, registers, client_ip, client_port, streaming, stream_thread,
                   gvcp_pc, gvcp_req, gvcp_i, join_start, acks, gvcp_handled, frames_sent,
                   quiet, cam_before>>
    /\ UNCHANGED <<gvspVars, mcVars, scanVars, hbVars, sendVars, mixVars, connVars, extVars>>

\* _stream_loop: _send_image emits a frame (nothing once stop() closed the socket)
SenderSend(t) ==
    /\ senders[t].pc = "send"
    /\ frames_sent < MaxFrames
    /\ frames_sent' = IF cam_running THEN frames_sent + 1 ELSE frames_sent
    /\ senders' = WithSender(t, Sender("test", 0, senders[t].last_frame_time))
    /\ UNCHANGED <<config, cam_running, registers, client_ip, client_port, streaming, stream_thread,
                   gvcp_pc, gvcp_req, gvcp_i, join_start, acks, gvcp_handled, quiet, cam_before>>
    /\ UNCHANGED <<gvspVars, mcVars, scanVars, hbVars, sendVars, mixVars, connVars, extVars>>

\* a thread that can take a step without time passing
Runnable(t) == senders[t].pc \in {"test", "send"} \/ (senders[t].pc = "sleep" /\ now >= senders[t].wake)

\* the moments the control thread or a sleeping sender waits for
Deadlines ==
    (IF cam_running /\ gvcp_pc = "recv" THEN {recv_start + RECV_TIMEOUT_MS} ELSE {})
    \cup (IF gvcp_pc = "join" THEN {join_start + JOIN_TIMEOUT_MS} ELSE {})
    \cup {senders[t].wake : t \in {u \in DOMAIN senders : senders[u].pc = "sleep"}}

\* time passes while every thread waits, up to the next moment one of them waits for
CamTick ==
    /\ now < MaxStreamTicks * TickMs
    /\ gvcp_pc # "write"
    /\ \A t \in DOMAIN senders : ~Runnable(t)
    /\ \A d \in Deadlines : now < d
    /\ now' = The({m \in Deadlines \cup {now + TickMs} : \A d \in Deadlines \cup {now + TickMs} : m <= d})
    /\ UNCHANGED <<control_privilege, last_heartbeat, recv_start, cleared>>
    /\ UNCHANGED <<gvspVars, mcVars, scanVars, camVars, sendVars, mixVars, connVars, extVars>>

\* _handle_gvcp, "except socket.timeout", while the control thread is in recvfrom
CamRecvTimeout == cam_running /\ gvcp_pc = "recv" /\ RecvTimeout

\* stop(): _running is cleared, _stop_streaming runs and the sockets are closed
CamStop ==
    /\ cam_running
    /\ gvcp_pc = "recv"
    /\ cam_running' = FALSE
    /\ streaming' = FALSE
    /\ stream_thread' = 0
    /\ UNCHANGED <<config, registers, client_ip, client_port, senders, gvcp_pc, gvcp_req, gvcp_i,
                   join_start, acks, gvcp_handled, frames_sent, quiet, cam_before>>
    /\ UNCHANGED <<gvspVars, mcVars, scanVars, hbVars, sendVars, mixVars, connVars, extVars>>

DefaultConfig ==
    MockCameraConfig(<<77, 111, 99, 107, 67, 97, 109, 32, 67, 111, 114, 112>>,
                     <<71, 105, 103, 69, 45, 77, 111, 99, 107, 45, 49, 48, 48, 48>>,
                     <<77, 79, 67, 75, 48, 48, 49>>,
                     <<77, 111, 99, 107, 67, 97, 109, 101, 114, 97>>,
                     <<49, 46, 48, 46, 48>>, 500)

\* a camera whose serial number fills its 16-byte field, at 0.4 frames a second
SlowConfig ==
    MockCameraConfig(<<86, 105, 115, 105, 111, 110>>, <<83, 108, 111, 119>>,
                     <<83, 69, 82, 73, 65, 76, 45, 48, 49, 50, 51, 52, 53, 54, 55, 56>>,
                     <<>>, <<50, 46, 49>>, 2500)

Configs == {DefaultConfig, SlowConfig}

\* __init__ and start() of a camera with the given configuration
CamStarted(c) ==
    /\ config = c
    /\ cam_running = TRUE
    /\ registers = InitialRegisters
    /\ client_ip = None
    /\ client_port = 0
    /\ streaming = FALSE
    /\ stream_thread = 0
    /\ senders = <<>>
    /\ gvcp_pc = "recv"
    /\ gvcp_req = <<>>
    /\ gvcp_i = 0
    /\ join_start = 0
    /\ acks = <<>>
    /\ gvcp_handled = 0
    /\ frames_sent = 0
    /\ quiet = FALSE
    /\ cam_before = <<InitialRegisters, None, 0, 0, FALSE, 0>>

IdleCam == CamStarted(DefaultConfig)

InitCam == \E c \in Configs : CamStarted(c)

\* GigEDeviceInfo
GigEDeviceInfo(mac_address, vendor, model, serial_number, user_defined_name, version) ==
    [mac_address |-> mac_address, vendor |-> vendor, model |-> model,
     serial_number |-> serial_number, user_defined_name |-> user_defined_name,
     version |-> version]

\* GigEVisionClient._parse_discovery_ack: None, or the record built from an Ack;
\* the MAC address is kept as the six bytes the text is formatted from
parse_discovery_ack(ack) ==
    IF 8 + Len(ack.data) < 256 THEN None
    ELSE IF ack.command # GVCPCommand.DISCOVERY_ACK THEN None
    ELSE LET payload  == ack.data
             mac_high == UnpackBE(Slice(payload, 8, 10))
             mac_low  == UnpackBE(Slice(payload, 10, 14))
         IN  Some(GigEDeviceInfo(
                 <<(mac_high \div 256) % 256, mac_high % 256, (mac_low \div 16777216) % 256,
                   (mac_low \div 65536) % 256, (mac_low \div 256) % 256, mac_low % 256>>,
                 rstrip_nul(Slice(payload, 64, 96)),
                 rstrip_nul(Slice(payload, 96, 128)),
                 rstrip_nul(Slice(payload, 208, 224)),
                 rstrip_nul(Slice(payload, 224, 240)),
                 rstrip_nul(Slice(payload, 128, 160))))

\* GVCPHeader(key=0x42, flag=0x01, command, length, req_id).pack() + payload
GvcpRequest(command, req_id, payload) ==
    <<66, 1>> \o PackBE16(command) \o PackBE16(Len(payload)) \o PackBE16(req_id) \o payload

\* struct.pack('>II', address, value)
WriteEntry(address, value) == PackBE32(address) \o PackBE32(value)

\* the stream port and address a client announces
ClientPort == 50000

ClientIp == 167772170

\* Write-Register datagrams that configure, start and stop the stream channel
StreamRequests ==
    {GvcpRequest(GVCPCommand.WRITEREG_CMD, 1, WriteEntry(BootstrapRegister.ACQUISITION_START, v)) : v \in {0, 1}}
    \cup {GvcpRequest(GVCPCommand.WRITEREG_CMD, 2, WriteEntry(BootstrapRegister.ACQUISITION_STOP, 1))}
    \cup {GvcpRequest(GVCPCommand.WRITEREG_CMD, 3,
                      WriteEntry(BootstrapRegister.STREAM_CHANNEL_0_DEST_IP, ClientIp)
                      \o WriteEntry(BootstrapRegister.STREAM_CHANNEL_0_PORT, ClientPort)
                      \o tail) :
             tail \in {<<>>, WriteEntry(BootstrapRegister.ACQUISITION_START, 1)}}

GvcpReceiveStream == \E data \in StreamRequests : GvcpReceive(data)

\* values written to registers
RegisterValues == {5, 16909060}

\* an address without side effect, and a string-register address
PlainAddresses == {BootstrapRegister.STREAM_CHANNEL_0_PACKET_SIZE, BootstrapRegister.HEARTBEAT_TIMEOUT}

StringAddresses == {BootstrapRegister.MANUFACTURER_NAME}

\* well-formed register and memory requests
RegisterRequests ==
    {GvcpRequest(GVCPCommand.WRITEREG_CMD, 258, WriteEntry(a, v)) :
        a \in PlainAddresses \cup StringAddresses, v \in RegisterValues}
    \cup {GvcpRequest(GVCPCommand.READREG_CMD, 259, PackBE32(a)) :
             a \in PlainAddresses \cup StringAddresses}
    \cup {GvcpRequest(GVCPCommand.READREG_CMD, 260,
                      PackBE32(BootstrapRegister.STREAM_CHANNEL_0_PACKET_SIZE)
                      \o PackBE32(BootstrapRegister.MANUFACTURER_NAME)),
          GvcpRequest(GVCPCommand.READMEM_CMD, 261,
                      PackBE32(BootstrapRegister.SERIAL_NUMBER) \o PackBE32(16)),
          GvcpRequest(GVCPCommand.WRITEREG_CMD, 262,
                      WriteEntry(BootstrapRegister.CONTROL_CHANNEL_PRIVILEGE, 2)),
          GvcpRequest(GVCPCommand.DISCOVERY_CMD, 263, <<>>),
          GvcpRequest(GVCPCommand.WRITEMEM_CMD, 264, <<>>)}

\* requests whose payload is no whole number of entries
FramingRequests ==
    {GvcpRequest(GVCPCommand.READREG_CMD, 513, Slice(PackBE32(BootstrapRegister.STREAM_CHANNEL_0_PACKET_SIZE), 0, 2)),
     GvcpRequest(GVCPCommand.READREG_CMD, 514,
                 PackBE32(BootstrapRegister.STREAM_CHANNEL_0_PACKET_SIZE) \o <<0, 0>>),
     GvcpRequest(GVCPCommand.WRITEREG_CMD, 515, PackBE32(BootstrapRegister.STREAM_CHANNEL_0_PACKET_SIZE)),
     GvcpRequest(GVCPCommand.WRITEREG_CMD, 516,
                 WriteEntry(BootstrapRegister.STREAM_CHANNEL_0_PACKET_SIZE, 5)
                 \o PackBE32(BootstrapRegister.STREAM_CHANNEL_0_PACKET_DELAY)),
     GvcpRequest(GVCPCommand.WRITEREG_CMD, 517,
                 WriteEntry(BootstrapRegister.STREAM_CHANNEL_0_DEST_IP, ClientIp)
                 \o WriteEntry(BootstrapRegister.STREAM_CHANNEL_0_PORT, ClientPort)
                 \o WriteEntry(BootstrapRegister.ACQUISITION_START, 1)
                 \o PackBE32(BootstrapRegister.ACQUISITION_STOP)),
     GvcpRequest(GVCPCommand.READMEM_CMD, 518, PackBE32(BootstrapRegister.SERIAL_NUMBER)),
     GvcpRequest(GVCPCommand.READMEM_CMD, 519,
                 PackBE32(BootstrapRegister.SERIAL_NUMBER) \o PackBE32(16) \o <<0, 0>>)}

\* datagrams that are no GVCP request: a wrong key, fewer than 8 bytes
StrayDatagrams == {<<67, 1>> \o PackBE16(GVCPCommand.READREG_CMD) \o PackBE16(0) \o PackBE16(770), <<66, 1, 0>>}

GvcpRequests == RegisterRequests \cup FramingRequests \cup StrayDatagrams

GvcpReceiveRegister == \E data \in RegisterRequests : GvcpReceive(data)

GvcpReceiveFraming == \E data \in FramingRequests : GvcpReceive(data)

GvcpReceiveStray == \E data \in StrayDatagrams : GvcpReceive(data)

(***************************************************************************)
(* Specifications                                                          *)
(***************************************************************************)
\* MockPLCServer.__init__ for either series; no request handled yet
InitMc ==
    /\ series \in {Q_SERIES, IQR_SERIES}
    /\ running = TRUE
    /\ memory = InitialMemory
    /\ plc_state = "STOP"
    /\ ladder_running = FALSE
    /\ request = <<>>
    /\ response = <<>>
    /\ memory_before = InitialMemory
    /\ state_before = <<"STOP", FALSE>>
    /\ handled = 0

\* the other subsystem at rest
IdleGvsp ==
    /\ packet_size = 1500
    /\ block_id = 0
    /\ net = {}
    /\ current_block_id = 0
    /\ packet_buffer = <<>>
    /\ image_buffer = None
    /\ image_ready = FALSE
    /\ sent_image = None
    /\ rx_log = <<>>

IdleMc == InitMc /\ series = Q_SERIES

(***************************************************************************)
(* Ladder engine: start() and stop() called from two threads               *)
(***************************************************************************)
\* number of scan threads created and of start()/stop() calls in one behaviour
MaxThreads == 2

MaxEngineCalls == 3

MaxThreadScans == 2

ThreadIds == 1..MaxThreads

\* the request-handler thread and the GUI thread
Callers == {"handler", "gui"}

\* threads that have not left _run_loop
LiveThreads == {t \in ThreadIds : scan_thread_pc[t] \in {"test", "scan"}}

\* threads created so far
Created == {t \in ThreadIds : scan_thread_pc[t] # "unborn"}

EngineFrame ==
    /\ UNCHANGED <<series, running, memory, plc_state, request, response,
                   memory_before, state_before, handled>>
    /\ UNCHANGED <<gvspVars, scanVars, hbVars, camVars, sendVars, mixVars, connVars>>
    /\ UNCHANGED <<plcClientVars, ctlVars, acqVars>>

\* start(): "if self.is_running: return"
StartTest(c) ==
    /\ caller_pc[c] = "idle"
    /\ engine_calls < MaxEngineCalls
    /\ Cardinality(Created) + Cardinality({d \in Callers : caller_pc[d] \in
           {"start_set", "start_clear", "start_spawn"}}) < MaxThreads
    /\ engine_calls' = engine_calls + 1
    /\ IF ladder_running
       THEN UNCHANGED <<caller_pc, engine_quiet>>
       ELSE /\ caller_pc' = [caller_pc EXCEPT ![c] = "start_set"]
            /\ engine_quiet' = FALSE
    /\ UNCHANGED <<ladder_running, stop_event, engine_thread, scan_thread_pc>>
    /\ EngineFrame

\* start(): "self.is_running = True"
StartSetRunning(c) ==
    /\ caller_pc[c] = "start_set"
    /\ ladder_running' = TRUE
    /\ caller_pc' = [caller_pc EXCEPT ![c] = "start_clear"]
    /\ UNCHANGED <<stop_event, engine_thread, scan_thread_pc, engine_quiet, engine_calls>>
    /\ EngineFrame

\* start(): "self._stop_event.clear()"
StartClearEvent(c) ==
    /\ caller_pc[c] = "start_clear"
    /\ stop_event' = FALSE
    /\ caller_pc' = [caller_pc EXCEPT ![c] = "start_spawn"]
    /\ UNCHANGED <<ladder_running, engine_thread, scan_thread_pc, engine_quiet, engine_calls>>
    /\ EngineFrame

\* start(): "self._thread = threading.Thread(target=self._run_loop)", started
StartSpawn(c) ==
    /\ caller_pc[c] = "start_spawn"
    /\ \E t \in ThreadIds :
          /\ t = Cardinality(Created) + 1
          /\ scan_thread_pc' = [scan_thread_pc EXCEPT ![t] = "test"]
          /\ engine_thread' = Some(t)
    /\ caller_pc' = [caller_pc EXCEPT ![c] = "idle"]
    /\ UNCHANGED <<ladder_running, stop_event, engine_quiet, engine_calls>>
    /\ EngineFrame

\* stop(): "if not self.is_running: return"
StopTest(c) ==
    /\ caller_pc[c] = "idle"
    /\ engine_calls < MaxEngineCalls
    /\ engine_calls' = engine_calls + 1
    /\ caller_pc' = IF ladder_running THEN [caller_pc EXCEPT ![c] = "stop_set"]
                    ELSE caller_pc
    /\ UNCHANGED <<ladder_running, stop_event, engine_thread, scan_thread_pc, engine_quiet>>
    /\ EngineFrame

\* stop(): "self.is_running = False"
StopSetRunning(c) ==
    /\ caller_pc[c] = "stop_set"
    /\ ladder_running' = FALSE
    /\ caller_pc' = [caller_pc EXCEPT ![c] = "stop_event"]
    /\ UNCHANGED <<stop_event, engine_thread, scan_thread_pc, engine_quiet, engine_calls>>
    /\ EngineFrame

\* stop(): "self._stop_event.set()"
StopSetEvent(c) ==
    /\ caller_pc[c] = "stop_event"
    /\ stop_event' = TRUE
    /\ caller_pc' = [caller_pc EXCEPT ![c] = "stop_join"]
    /\ UNCHANGED <<ladder_running, engine_thread, scan_thread_pc, engine_quiet, engine_calls>>
    /\ EngineFrame

\* "self._thread.join(timeout=1.0)": the thread has ended, or it goes on looping
\* because the event is clear again and the second passes
thread_joined(pc, event) == pc = "dead" \/ ~event

\* stop(): "if self._thread: join; self._thread = None", then the return; the
\* engine is engine_quiet from here on unless a start() has begun meanwhile
StopJoin(c) ==
    /\ caller_pc[c] = "stop_join"
    /\ engine_thread # None => thread_joined(scan_thread_pc[engine_thread[1]], stop_event)
    /\ engine_thread' = None
    /\ caller_pc' = [caller_pc EXCEPT ![c] = "idle"]
    /\ engine_quiet' = (~ladder_running /\ \A d \in Callers : caller_pc[d] \notin
                    {"start_set", "start_clear", "start_spawn"})
    /\ UNCHANGED <<ladder_running, stop_event, scan_thread_pc, engine_calls>>
    /\ EngineFrame

\* _run_loop: "while not self._stop_event.is_set()"
ThreadTest(t) ==
    /\ scan_thread_pc[t] = "test"
    /\ scan_thread_pc' = [scan_thread_pc EXCEPT ![t] = IF stop_event THEN "dead" ELSE "scan"]
    /\ UNCHANGED <<ladder_running, stop_event, engine_thread, caller_pc, engine_quiet,
                   engine_calls>>
    /\ EngineFrame

\* _run_loop: execute_scan() ("self.scan_count += 1", timers, programs, which
\* write the device store), and the wait
ThreadScan(t) ==
    /\ scan_thread_pc[t] = "scan"
    /\ scan_count < MaxThreadScans
    /\ scan_count' = scan_count + 1
    /\ scan_thread_pc' = [scan_thread_pc EXCEPT ![t] = "test"]
    /\ UNCHANGED <<ladder_running, stop_event, engine_thread, caller_pc, engine_quiet,
                   engine_calls>>
    /\ UNCHANGED <<programs, timers, scan_pc, scan_current, scan_v1, scan_v2, scan_view,
                   req_pc, req_words, req_view, engineVars>>
    /\ UNCHANGED <<series, running, memory, plc_state, request, response,
                   memory_before, state_before, handled>>
    /\ UNCHANGED <<gvspVars, hbVars, camVars, sendVars, mixVars, connVars>>
    /\ UNCHANGED <<plcClientVars, ctlVars, acqVars>>

\* LadderEngine.__init__
IdleThreads ==
    /\ stop_event = FALSE
    /\ engine_thread = None
    /\ scan_thread_pc = [t \in ThreadIds |-> "unborn"]
    /\ caller_pc = [c \in Callers |-> "idle"]
    /\ engine_quiet = FALSE
    /\ engine_calls = 0

EngineStart == \E c \in Callers : StartTest(c) \/ StartSetRunning(c) \/ StartClearEvent(c) \/ StartSpawn(c)

EngineStop == \E c \in Callers : StopTest(c) \/ StopSetRunning(c) \/ StopSetEvent(c) \/ StopJoin(c)

EngineThread == \E t \in ThreadIds : ThreadTest(t) \/ ThreadScan(t)

NextThreads == EngineStart \/ EngineStop \/ EngineThread

(***************************************************************************)
(* PLCClient: calls on one connection (_get_frame, _send_receive,          *)
(* _check_response) against the mock server                                *)
(***************************************************************************)
\* number of calls one behaviour makes
MaxClientCalls == 3

\* read_words("D", 0, 1) and write_words("D", 0, [1])
ClientCallKinds == {"read_words", "write_words"}

\* _get_frame: "self._serial_no = (self._serial_no + 1) & 0xFFFF"
next_serial_no(serial_no) == (serial_no + 1) % 65536

\* read_words / write_words: the request built on the frame of _get_frame
client_request(kind, frame) ==
    IF kind = "read_words" THEN build_batch_read_request(frame, DeviceD, 0, 1, FALSE)
    ELSE build_batch_write_request(frame, DeviceD, 0, <<1>>, FALSE)

\* recv(4096): every byte the socket has buffered
RECURSIVE recv_all(_)
recv_all(buffer) ==
    IF buffer = <<>> THEN <<>> ELSE Head(buffer).data \o recv_all(Tail(buffer))

\* _check_response: parse_response with the configured series; a ValueError
\* or a non-zero end code becomes a PLCClientError
check_response(data, client_series) == parse_response(data, client_series)

PlcClientFrame ==
    UNCHANGED <<gvspVars, scanVars, hbVars, camVars, sendVars, mixVars, connVars, threadVars,
                ctlVars, acqVars>>

\* a read or write call up to "self._socket.send(request)"
ClientCall(kind) ==
    /\ client_pc = "idle"
    /\ client_connected
    /\ client_calls < MaxClientCalls
    /\ client_serial_no' = next_serial_no(client_serial_no)
    /\ client_calls' = client_calls + 1
    /\ sent_requests' = Append(sent_requests,
           [call |-> client_calls + 1,
            data |-> client_request(kind, MCFrame(series, next_serial_no(client_serial_no)))])
    /\ client_pc' = "recv"
    /\ UNCHANGED <<client_connected, late_responses, client_response>>
    /\ UNCHANGED mcVars
    /\ PlcClientFrame

\* _send_receive: recv returns the buffered bytes; _check_response evaluates them
ClientRecv ==
    /\ client_pc = "recv"
    /\ late_responses # <<>>
    /\ client_response' = Some([call |-> client_calls,
                                 answers |-> Head(late_responses).call,
                                 parsed |-> check_response(recv_all(late_responses), series)])
    /\ late_responses' = <<>>
    /\ client_pc' = "idle"
    /\ UNCHANGED <<client_serial_no, client_connected, sent_requests, client_calls>>
    /\ UNCHANGED mcVars
    /\ PlcClientFrame

\* _send_receive: "except socket.timeout: raise PLCClientError(...)"; the socket
\* stays open and _connected stays True
ClientTimeout ==
    /\ client_pc = "recv"
    /\ late_responses = <<>>
    /\ client_pc' = "idle"
    /\ UNCHANGED <<client_serial_no, client_connected, sent_requests, late_responses,
                   client_response, client_calls>>
    /\ UNCHANGED mcVars
    /\ PlcClientFrame

\* _server_loop: recv, _handle_request, the response delay, send
ServerAnswer ==
    /\ running
    /\ sent_requests # <<>>
    /\ \E r \in {handle_request(ServerState(memory, plc_state, ladder_running),
                                Head(sent_requests).data)} :
          /\ response' = r.response
          /\ memory' = r.sv.memory
          /\ plc_state' = r.sv.plc_state
          /\ ladder_running' = r.sv.ladder_running
          /\ late_responses' = IF r.response # <<>>
                               THEN Append(late_responses,
                                           [call |-> Head(sent_requests).call,
                                            data |-> r.response])
                               ELSE late_responses
    /\ request' = Head(sent_requests).data
    /\ memory_before' = memory
    /\ state_before' = <<plc_state, ladder_running>>
    /\ handled' = handled + 1
    /\ sent_requests' = Tail(sent_requests)
    /\ UNCHANGED <<series, running>>
    /\ UNCHANGED <<client_serial_no, client_connected, client_pc, client_response,
                   client_calls>>
    /\ PlcClientFrame

\* PLCClient.__init__ and connect()
IdlePlcClient ==
    /\ client_serial_no = 0
    /\ client_connected = TRUE
    /\ client_pc = "idle"
    /\ sent_requests = <<>>
    /\ late_responses = <<>>
    /\ client_response = None
    /\ client_calls = 0

ClientCalls == \E kind \in ClientCallKinds : ClientCall(kind)

NextPlcClient == ClientCalls \/ ClientRecv \/ ClientTimeout \/ ServerAnswer

(***************************************************************************)
(* GigEVisionClient: commands on the GVCP socket (_send_gvcp_command,      *)
(* discover_devices) against the mock camera                               *)
(***************************************************************************)
\* number of commands one behaviour sends
MaxCtlCommands == 3

\* registers read by _read_register
CtlAddresses ==
    {BootstrapRegister.HEARTBEAT_TIMEOUT, BootstrapRegister.CONTROL_CHANNEL_PRIVILEGE}

\* _get_req_id: "self._req_id = (self._req_id + 1) & 0xFFFF"
next_req_id(req_id) == (req_id + 1) % 65536

\* the Acks of one datagram as they queue on the client's socket
Queued(sent) == [k \in 1..Len(sent) |-> sent[k]]

CtlFrame ==
    UNCHANGED <<gvspVars, mcVars, scanVars, sendVars, mixVars, connVars, threadVars,
                plcClientVars, acqVars>>

\* _read_register up to "self._gvcp_socket.sendto(packet, dest)"
CtlReadRegister(address) ==
    /\ ctl_pc = "idle"
    /\ ctl_commands < MaxCtlCommands
    /\ ctl_sent' = Append(ctl_sent,
                          GvcpRequest(GVCPCommand.READREG_CMD, ctl_req_id, PackBE32(address)))
    /\ ctl_req_id' = next_req_id(ctl_req_id)
    /\ ctl_commands' = ctl_commands + 1
    /\ ctl_pc' = "recv"
    /\ UNCHANGED <<ctl_queue, ctl_result>>
    /\ UNCHANGED <<hbVars, camVars>>
    /\ CtlFrame

\* _send_gvcp_command: recvfrom returns a datagram, "return ack.status,
\* response[8:]"; _read_register unpacks the first four bytes
CtlRecv ==
    /\ ctl_pc = "recv"
    /\ ctl_queue # <<>>
    /\ ctl_result' = Some([req_id |-> (ctl_req_id + 65535) % 65536,
                           ack_id |-> Head(ctl_queue).ack_id,
                           status |-> Head(ctl_queue).status,
                           value  |-> IF Head(ctl_queue).status = GVCPStatus.SUCCESS
                                         /\ Len(Head(ctl_queue).data) >= 4
                                      THEN Some(UnpackBE(Slice(Head(ctl_queue).data, 0, 4)))
                                      ELSE None])
    /\ ctl_queue' = Tail(ctl_queue)
    /\ ctl_pc' = "idle"
    /\ UNCHANGED <<ctl_req_id, ctl_sent, ctl_commands>>
    /\ UNCHANGED <<hbVars, camVars>>
    /\ CtlFrame

\* _send_gvcp_command: "except socket.timeout: return GVCPStatus.NO_MSG, b''"
CtlTimeout ==
    /\ ctl_pc = "recv"
    /\ ctl_queue = <<>>
    /\ ctl_pc' = "idle"
    /\ ctl_result' = None
    /\ UNCHANGED <<ctl_req_id, ctl_sent, ctl_queue, ctl_commands>>
    /\ UNCHANGED <<hbVars, camVars>>
    /\ CtlFrame

\* discover_devices up to the broadcast of DISCOVERY_CMD
CtlDiscover ==
    /\ ctl_pc = "idle"
    /\ ctl_commands < MaxCtlCommands
    /\ ctl_sent' = Append(ctl_sent, GvcpRequest(GVCPCommand.DISCOVERY_CMD, ctl_req_id, <<>>))
    /\ ctl_req_id' = next_req_id(ctl_req_id)
    /\ ctl_commands' = ctl_commands + 1
    /\ ctl_pc' = "discover"
    /\ UNCHANGED <<ctl_queue, ctl_result>>
    /\ UNCHANGED <<hbVars, camVars>>
    /\ CtlFrame

\* discover_devices: one recvfrom of the collecting loop
CtlDiscoverRecv ==
    /\ ctl_pc = "discover"
    /\ ctl_queue # <<>>
    /\ ctl_queue' = Tail(ctl_queue)
    /\ UNCHANGED <<ctl_req_id, ctl_pc, ctl_sent, ctl_result, ctl_commands>>
    /\ UNCHANGED <<hbVars, camVars>>
    /\ CtlFrame

\* discover_devices: the loop ends, by socket.timeout or when its time is up
CtlDiscoverEnd ==
    /\ ctl_pc = "discover"
    /\ ctl_pc' = "idle"
    /\ UNCHANGED <<ctl_req_id, ctl_sent, ctl_queue, ctl_result, ctl_commands>>
    /\ UNCHANGED <<hbVars, camVars>>
    /\ CtlFrame

\* _handle_gvcp of the camera: the client's datagram is handled and the Acks
\* are sent back to its address
CtlCameraAnswers ==
    /\ ctl_sent # <<>>
    /\ handle_gvcp(Head(ctl_sent))
    /\ gvcp_pc' = "recv"
    /\ ctl_sent' = Tail(ctl_sent)
    /\ ctl_queue' = ctl_queue \o Queued(acks')
    /\ UNCHANGED <<ctl_req_id, ctl_pc, ctl_result, ctl_commands>>
    /\ UNCHANGED <<threadVars, plcClientVars, acqVars>>

\* GigEVisionClient.__init__ and connect()
IdleCtl ==
    /\ ctl_req_id = 1
    /\ ctl_pc = "idle"
    /\ ctl_sent = <<>>
    /\ ctl_queue = <<>>
    /\ ctl_result = None
    /\ ctl_commands = 0

CtlReads == \E address \in CtlAddresses : CtlReadRegister(address)

NextCtl ==
    CtlReads \/ CtlRecv \/ CtlTimeout \/ CtlDiscover \/ CtlDiscoverRecv \/ CtlDiscoverEnd
    \/ CtlCameraAnswers

(***************************************************************************)
(* MockGigECamera: _acquisition_loop and GVSPServer.send_image             *)
(***************************************************************************)
\* frames one behaviour sends
MaxAcqFrames == 2

\* "chunk_size = 1400" of send_image
CHUNK_SIZE == 1400

\* image sizes in bytes: a small image, 254 and 255 chunks, and the generated
\* 640 x 480 test pattern with three bytes a pixel
AcqImageSizes == {4200, 355600, 357000, 921600}

\* struct.pack('>BBHI', 1, 0, block_id & 0xFFFF, (packet_id << 24) | kind):
\* the 'I' field takes 0..2^32-1, so the shifted packet_id must be below 2^8
header_packs(packet_id) == packet_id \div 256 = 0

\* no packet of the block sent yet
NoPackets == [leader |-> 0, payload |-> 0, trailer |-> 0]

AcqFrame ==
    UNCHANGED <<gvspVars, mcVars, scanVars, hbVars, camVars, sendVars, mixVars, connVars,
                threadVars, plcClientVars, ctlVars>>

\* _acquisition_loop: the next image is taken and send_image begins: block_id
\* is advanced, packet_id cleared, the leader created and sent
AcqSendImage ==
    /\ acq_pc = "loop"
    /\ acq_frame_id < MaxAcqFrames
    /\ acq_frame_id' = acq_frame_id + 1
    /\ acq_index' = (acq_index + 1) % Len(acq_images)
    /\ srv_block_id' = srv_block_id + 1
    /\ srv_length' = acq_images[acq_index + 1]
    /\ srv_offset' = 0
    /\ IF header_packs(0)
       THEN /\ srv_packet_id' = 1
            /\ srv_sent' = [NoPackets EXCEPT !.leader = 1]
            /\ acq_pc' = "sending"
       ELSE /\ srv_packet_id' = 0
            /\ srv_sent' = NoPackets
            /\ acq_pc' = "dead"
    /\ UNCHANGED acq_images
    /\ AcqFrame

\* send_image: one iteration of the chunk loop; a struct.error of
\* _create_payload_packet leaves send_image and ends the thread
AcqSendPayload ==
    /\ acq_pc = "sending"
    /\ srv_offset < srv_length
    /\ IF header_packs(srv_packet_id)
       THEN /\ srv_packet_id' = srv_packet_id + 1
            /\ srv_sent' = [srv_sent EXCEPT !.payload = @ + 1]
            /\ srv_offset' = srv_offset + CHUNK_SIZE
            /\ UNCHANGED acq_pc
       ELSE /\ acq_pc' = "dead"
            /\ UNCHANGED <<srv_packet_id, srv_sent, srv_offset>>
    /\ UNCHANGED <<acq_images, acq_index, acq_frame_id, srv_block_id, srv_length>>
    /\ AcqFrame

\* send_image after the loop: the trailer; then the sleep of _acquisition_loop
AcqSendTrailer ==
    /\ acq_pc = "sending"
    /\ srv_offset >= srv_length
    /\ IF header_packs(srv_packet_id)
       THEN /\ srv_packet_id' = srv_packet_id + 1
            /\ srv_sent' = [srv_sent EXCEPT !.trailer = @ + 1]
            /\ acq_pc' = "loop"
       ELSE /\ acq_pc' = "dead"
            /\ UNCHANGED <<srv_packet_id, srv_sent>>
    /\ UNCHANGED <<acq_images, acq_index, acq_frame_id, srv_block_id, srv_offset, srv_length>>
    /\ AcqFrame

\* MockGigECamera.__init__, start() and start_acquisition() with these images
AcqStarted(images) ==
    /\ acq_images = images
    /\ acq_index = 0
    /\ acq_frame_id = 0
    /\ acq_pc = "loop"
    /\ srv_block_id = 0
    /\ srv_packet_id = 0
    /\ srv_offset = 0
    /\ srv_length = 0
    /\ srv_sent = NoPackets

IdleAcq == AcqStarted(<<4200>>)

\* one image, or the small image followed by another
InitAcq ==
    \E images \in {<<n>> : n \in AcqImageSizes} \cup {<<4200, n>> : n \in AcqImageSizes} :
        AcqStarted(images)

NextAcq == AcqSendImage \/ AcqSendPayload \/ AcqSendTrailer

(***************************************************************************)
(* MC server: connections (_server_loop, _handle_disconnect, stop)         *)
(***************************************************************************)
\* number of TCP clients
MaxClients == 2

Clients == 1..MaxClients

\* a word write to D0 and the read of D0
ConnRequests ==
    {build_batch_write_request(FrameQ, DeviceD, 0, <<1>>, FALSE),
     build_batch_read_request(FrameQ, DeviceD, 0, 1, FALSE)}

accepts_always(sock) == TRUE

\* "if self._client_socket is None:" before accept()
accepts(sock) == sock = None

\* a client's connect(): the listening socket completes the handshake and
\* queues the connection until the server thread accepts it
ClientConnect(c) ==
    /\ running
    /\ peer[c] = "idle"
    /\ peer' = [peer EXCEPT ![c] = "connected"]
    /\ backlog' = Append(backlog, c)
    /\ queued_behind' = IF client_socket # None THEN queued_behind \cup {c} ELSE queued_behind
    /\ UNCHANGED <<client_socket, inbox, outbox, serve_pc, pending, open_conns,
                   accept_log>>
    /\ UNCHANGED <<gvspVars, mcVars, scanVars, hbVars, camVars, sendVars, mixVars, extVars>>

\* a client sends its request; the bytes wait in the connection's receive
\* buffer, accepted or not
ClientSend(c) ==
    /\ peer[c] = "connected"
    /\ peer' = [peer EXCEPT ![c] = "requested"]
    /\ \E data \in ConnRequests : inbox' = [inbox EXCEPT ![c] = Some(data)]
    /\ UNCHANGED <<client_socket, backlog, outbox, serve_pc, pending,
                   open_conns, accept_log, queued_behind>>
    /\ UNCHANGED <<gvspVars, mcVars, scanVars, hbVars, camVars, sendVars, mixVars, extVars>>

\* a client closes its end
ClientClose(c) ==
    /\ peer[c] \in {"connected", "requested"}
    /\ peer' = [peer EXCEPT ![c] = "closed"]
    /\ UNCHANGED <<client_socket, backlog, inbox, outbox, serve_pc, pending,
                   open_conns, accept_log, queued_behind>>
    /\ UNCHANGED <<gvspVars, mcVars, scanVars, hbVars, camVars, sendVars, mixVars, extVars>>

\* _server_loop: accept() returns the oldest queued connection
ConnAccept ==
    /\ running
    /\ serve_pc = "loop"
    /\ accepts(client_socket)
    /\ backlog # <<>>
    /\ client_socket' = Some(Head(backlog))
    /\ backlog' = Tail(backlog)
    /\ open_conns' = open_conns \cup {Head(backlog)}
    /\ accept_log' = Append(accept_log, Head(backlog))
    /\ UNCHANGED <<peer, inbox, outbox, serve_pc, pending, queued_behind>>
    /\ UNCHANGED <<gvspVars, mcVars, scanVars, hbVars, camVars, sendVars, mixVars, extVars>>

\* _server_loop: recv(4096) returns a request, _handle_request answers it
ConnRecv ==
    /\ running
    /\ serve_pc = "loop"
    /\ client_socket # None
    /\ inbox[client_socket[1]] # None
    /\ \E r \in {handle_request(ServerState(memory, plc_state, ladder_running),
                                inbox[client_socket[1]][1])} :
          /\ response' = r.response
          /\ memory' = r.sv.memory
          /\ plc_state' = r.sv.plc_state
          /\ ladder_running' = r.sv.ladder_running
          /\ IF r.response # <<>>
             THEN /\ serve_pc' = "send"
                  /\ pending' = Some([conn |-> client_socket[1],
                                      response |-> r.response])
             ELSE UNCHANGED <<serve_pc, pending>>
    /\ request' = inbox[client_socket[1]][1]
    /\ memory_before' = memory
    /\ state_before' = <<plc_state, ladder_running>>
    /\ handled' = handled + 1
    /\ inbox' = [inbox EXCEPT ![client_socket[1]] = None]
    /\ UNCHANGED <<series, running>>
    /\ UNCHANGED <<client_socket, backlog, peer, outbox, open_conns, accept_log,
                   queued_behind>>
    /\ UNCHANGED <<gvspVars, scanVars, hbVars, camVars, sendVars, mixVars, extVars>>

\* _server_loop: "self._client_socket.send(response)"; after stop() the
\* attribute is None, the send raises and _handle_disconnect finds nothing
ConnSend ==
    /\ serve_pc = "send"
    /\ serve_pc' = "loop"
    /\ pending' = None
    /\ outbox' = IF client_socket # None
                 THEN [outbox EXCEPT ![client_socket[1]] =
                          Append(@, pending[1].response)]
                 ELSE outbox
    /\ UNCHANGED <<client_socket, backlog, peer, inbox, open_conns, accept_log,
                   queued_behind>>
    /\ UNCHANGED <<gvspVars, mcVars, scanVars, hbVars, camVars, sendVars, mixVars, extVars>>

\* _server_loop: recv returns b"" once the client has closed and its bytes
\* are read; _handle_disconnect closes the socket and forgets it
ConnDisconnect ==
    /\ running
    /\ serve_pc = "loop"
    /\ client_socket # None
    /\ inbox[client_socket[1]] = None
    /\ peer[client_socket[1]] = "closed"
    /\ client_socket' = None
    /\ open_conns' = open_conns \ {client_socket[1]}
    /\ UNCHANGED <<backlog, peer, inbox, outbox, serve_pc, pending, accept_log,
                   queued_behind>>
    /\ UNCHANGED <<gvspVars, mcVars, scanVars, hbVars, camVars, sendVars, mixVars, extVars>>

\* MockPLCServer.stop: _running = False, the ladder stopped, the client socket
\* and the listening socket closed
ConnStop ==
    /\ running
    /\ running' = FALSE
    /\ ladder_running' = FALSE
    /\ client_socket' = None
    /\ backlog' = <<>>
    /\ open_conns' = {}
    /\ UNCHANGED <<series, memory, plc_state, request, response, memory_before,
                   state_before, handled>>
    /\ UNCHANGED <<peer, inbox, outbox, serve_pc, pending, accept_log, queued_behind>>
    /\ UNCHANGED <<gvspVars, scanVars, hbVars, camVars, sendVars, mixVars, extVars>>

\* no client has connected
IdleConn ==
    /\ client_socket = None
    /\ backlog = <<>>
    /\ peer = [c \in Clients |-> "idle"]
    /\ inbox = [c \in Clients |-> None]
    /\ outbox = [c \in Clients |-> <<>>]
    /\ serve_pc = "loop"
    /\ pending = None
    /\ open_conns = {}
    /\ accept_log = <<>>
    /\ queued_behind = {}

Connect == \E c \in Clients : ClientConnect(c)

Send == \E c \in Clients : ClientSend(c)

Close == \E c \in Clients : ClientClose(c)

NextConn ==
    Connect \/ Send \/ Close \/ ConnAccept \/ ConnRecv \/ ConnSend
    \/ ConnDisconnect \/ ConnStop

\* the sections after the ladder engine's threads at rest
IdleLater == IdlePlcClient /\ IdleCtl /\ IdleAcq

\* the later sections at rest
IdleExt == IdleThreads /\ IdleLater

\* the MC server started, no client yet
StartConn == IdleMc /\ IdleConn /\ IdleGvsp /\ InitScan /\ InitHeartbeat /\ IdleSend /\ IdleMix /\ IdleCam /\ IdleExt

SpecConn == StartConn /\ [][NextConn]_vars

\* the server thread keeps looping while _running
SpecConnFair ==
    SpecConn /\ WF_vars(ConnAccept) /\ WF_vars(ConnRecv) /\ WF_vars(ConnSend)
    /\ WF_vars(ConnDisconnect)

\* the engine constructed and stopped, no program loaded
StartThreads == IdleMc /\ InitScan /\ IdleGvsp /\ InitHeartbeat /\ IdleSend /\ IdleMix /\ IdleCam /\ IdleConn /\ IdleThreads /\ IdleLater

SpecThreads == StartThreads /\ [][NextThreads]_vars

\* a connected PLCClient and the mock server of either series
StartPlcClient == InitMc /\ InitScan /\ IdleGvsp /\ InitHeartbeat /\ IdleSend /\ IdleMix /\ IdleCam /\ IdleConn /\ IdleExt

SpecPlcClient == StartPlcClient /\ [][NextPlcClient]_vars

\* a connected GigEVisionClient and the mock camera
StartCtl == InitCam /\ InitHeartbeat /\ IdleSend /\ IdleMix /\ IdleGvsp /\ IdleMc /\ InitScan /\ IdleConn /\ IdleExt

SpecCtl == StartCtl /\ [][NextCtl]_vars

\* the mock camera acquiring, the other subsystems at rest
StartAcq == InitAcq /\ IdleThreads /\ IdlePlcClient /\ IdleCtl /\ IdleMc /\ InitScan /\ IdleGvsp /\ InitHeartbeat /\ IdleSend /\ IdleMix /\ IdleCam /\ IdleConn

SpecAcq == StartAcq /\ [][NextAcq]_vars

NextGvsp == StreamFrame \/ Receive \/ GetImage

\* the stream receiver constructed, the other subsystems at rest
StartGvsp == InitGvsp /\ IdleMc /\ InitScan /\ InitHeartbeat /\ IdleSend /\ IdleMix /\ IdleCam /\ IdleConn /\ IdleExt

SpecGvsp == StartGvsp /\ [][NextGvsp]_vars

NextMc == ExchangeBinary \/ ExchangeAscii \/ Exchange1E \/ ExchangeMalformed

\* the MC server constructed for either series
StartMc == InitMc /\ IdleGvsp /\ InitScan /\ InitHeartbeat /\ IdleSend /\ IdleMix /\ IdleCam /\ IdleConn /\ IdleExt

SpecMc == StartMc /\ [][NextMc]_vars

\* a remote control request (or another request without device data)
ExchangeControl ==
    /\ handled < MaxRequests
    /\ \E data \in ControlRequests : Exchange(data)

\* MockPLCServer.stop: _running = False, ladder_engine.stop(), the sockets
\* closed; self.state is not assigned
ServerStop ==
    /\ running' = FALSE
    /\ ladder_running' = FALSE
    /\ UNCHANGED <<series, memory, plc_state, request, response, memory_before,
                   state_before, handled>>
    /\ UNCHANGED <<gvspVars, scanVars, hbVars, camVars, sendVars, mixVars, connVars, extVars>>

\* MockPLCServer.start: "if self._running: return False"; the engine and
\* self.state are not touched
ServerStart ==
    /\ ~running
    /\ running' = TRUE
    /\ UNCHANGED <<series, memory, plc_state, ladder_running, request, response,
                   memory_before, state_before, handled>>
    /\ UNCHANGED <<gvspVars, scanVars, hbVars, camVars, sendVars, mixVars, connVars, extVars>>

\* MockPLCServer.set_series: a new PLCDeviceManager and a new LadderEngine
\* (not running, nothing loaded) replace the old ones; self.state is kept
SetSeries ==
    /\ \E s \in {Q_SERIES, IQR_SERIES} : series' = s
    /\ memory' = InitialMemory
    /\ ladder_running' = FALSE
    /\ UNCHANGED <<running, plc_state, request, response, memory_before,
                   state_before, handled>>
    /\ UNCHANGED <<gvspVars, scanVars, hbVars, camVars, sendVars, mixVars, connVars, extVars>>

NextServer == ExchangeControl \/ ServerStop \/ ServerStart \/ SetSeries

\* the MC server started, driven by its public API and by control requests
StartServer == InitMc /\ IdleGvsp /\ InitScan /\ InitHeartbeat /\ IdleSend /\ IdleMix /\ IdleCam /\ IdleConn /\ IdleExt /\ series = Q_SERIES

SpecServer == StartServer /\ [][NextServer]_vars

\* bit-unit and word-unit batch writes to the bit devices X and M
DualityRequests ==
    {build_batch_write_request(FrameQ, DeviceX, a, b, TRUE) :
        a \in {0, 8190}, b \in BitLists}
    \cup {build_batch_write_request(FrameQ, DeviceX, a, <<v>>, FALSE) :
        a \in {0, 8, 8176}, v \in WordVals}
    \cup {build_batch_write_request(FrameQ, DeviceM, 0, <<1>>, TRUE)}

ExchangeDuality ==
    /\ handled < MaxRequests
    /\ \E data \in DualityRequests : Exchange(data)

NextDuality == ExchangeDuality

\* the Q series server started, nothing written yet
StartDuality == IdleMc /\ InitScan /\ IdleGvsp /\ InitHeartbeat /\ IdleSend /\ IdleMix /\ IdleCam /\ IdleConn /\ IdleExt /\ plc_state = "STOP"

SpecDuality == StartDuality /\ [][NextDuality]_vars

NextLadder ==
    \/ AddProgram \/ ScanBegin \/ UpdateTimerValue \/ UpdateTimerContact
    \/ ExecLD \/ ExecAddV1 \/ ExecAddV2 \/ ExecAddSet
    \/ ExecOutT \/ ExecResetTC \/ ExecResetTN
    \/ HandlerExchange \/ HandlerWordsToBitsBegin \/ HandlerWordsToBitsStep
    \/ HandlerStopBegin \/ HandlerStopJoined

\* the Q series server with its ladder engine, no program loaded
StartLadder == IdleMc /\ InitScan /\ IdleGvsp /\ InitHeartbeat /\ IdleSend /\ IdleMix /\ IdleCam /\ IdleConn /\ IdleExt

SpecLadder == StartLadder /\ [][NextLadder]_vars

NextScan == ExecuteScan \/ SetInput \/ Advance

\* one sample program loaded, then RUN from the GUI: state RUN, engine started
StartScan ==
    /\ series = Q_SERIES
    /\ running = TRUE
    /\ memory = InitialMemory
    /\ plc_state = "RUN"
    /\ ladder_running = TRUE
    /\ request = <<>>
    /\ response = <<>>
    /\ memory_before = InitialMemory
    /\ state_before = <<"STOP", FALSE>>
    /\ handled = 0
    /\ programs \in {<<p>> : p \in SamplePrograms}
    /\ timers = None
    /\ counters = None
    /\ seen = <<>>
    /\ held_since = None
    /\ prev_bits = {}
    /\ scan_count = 0
    /\ scan_pc = "idle"
    /\ scan_current = FALSE
    /\ scan_v1 = 0
    /\ scan_v2 = 0
    /\ scan_view = InitialMemory
    /\ req_pc = 0
    /\ req_words = <<>>
    /\ req_view = InitialMemory
    /\ IdleGvsp
    /\ InitHeartbeat /\ IdleSend /\ IdleMix /\ IdleCam /\ IdleConn /\ IdleExt

SpecScan == StartScan /\ [][NextScan]_vars

(***************************************************************************)
(* Ladder: MOV, ADD, SUB, MUL, DIV under a contact                         *)
(***************************************************************************)
\* number of operand writes and of scans in one behaviour
MaxOperandWrites == 1

MaxArithScans == 2

\* 16-bit operand values: both ends of the range and a small value
ArithValues == {0, 2, 65535}

\* first operands: the word D0 or the constant K65535
ArithSources == {Device(DeviceD, 0), Immediate(65535)}

\* destinations: a word of its own, or the first operand's word
ArithDestinations == {Device(DeviceD, 2), Device(DeviceD, 0)}

\* LD X0, <instruction>, OUT Y0, END
ArithProgram(inst) ==
    <<Instruction("LD", <<Device(DeviceX, 0)>>), inst,
      Instruction("OUT", <<Device(DeviceY, 0)>>), Instruction("END", <<>>)>>

ArithInstructions ==
    {Instruction("MOV", <<a, d>>) : a \in ArithSources, d \in ArithDestinations}
    \cup {Instruction(type, <<a, Device(DeviceD, 1), d>>) :
             type \in {"ADD", "SUB", "MUL", "DIV"}, a \in ArithSources,
             d \in ArithDestinations}

\* a client writes the operand words D0 and D1
WriteOperands ==
    /\ handled < MaxOperandWrites
    /\ \E v1 \in ArithValues, v2 \in ArithValues :
          Exchange(build_batch_write_request(FrameQ, DeviceD, 0, <<v1, v2>>, FALSE))

\* a scan of the arithmetic program
ArithScan == scan_count < MaxArithScans /\ ExecuteScan

\* PLCDeviceManager.set_bit on the contact X0, from outside the engine
SetContact ==
    /\ \E value \in BOOLEAN :
          /\ get_bit(memory, DeviceX, 0) # value
          /\ memory' = set_bit(memory, DeviceX, 0, value)
    /\ UNCHANGED <<series, running, plc_state, ladder_running, request, response,
                   memory_before, state_before, handled>>
    /\ UNCHANGED <<gvspVars, scanVars, hbVars, camVars, sendVars, mixVars, connVars, extVars>>

NextArith == ArithScan \/ SetContact \/ WriteOperands

\* one arithmetic program loaded, then RUN: state RUN, engine started
StartArith ==
    /\ series = Q_SERIES
    /\ running = TRUE
    /\ memory = InitialMemory
    /\ plc_state = "RUN"
    /\ ladder_running = TRUE
    /\ request = <<>>
    /\ response = <<>>
    /\ memory_before = InitialMemory
    /\ state_before = <<"STOP", FALSE>>
    /\ handled = 0
    /\ programs \in {<<ArithProgram(inst)>> : inst \in ArithInstructions}
    /\ timers = None
    /\ counters = None
    /\ seen = <<>>
    /\ held_since = None
    /\ prev_bits = {}
    /\ scan_count = 0
    /\ scan_pc = "idle"
    /\ scan_current = FALSE
    /\ scan_v1 = 0
    /\ scan_v2 = 0
    /\ scan_view = InitialMemory
    /\ req_pc = 0
    /\ req_words = <<>>
    /\ req_view = InitialMemory
    /\ IdleGvsp
    /\ InitHeartbeat /\ IdleSend /\ IdleMix /\ IdleCam /\ IdleConn /\ IdleExt

SpecArith == StartArith /\ [][NextArith]_vars

(***************************************************************************)
(* Device store under dispatcher writes and ladder scans                   *)
(***************************************************************************)
\* number of write requests and of scans in one behaviour
MaxStoreWrites == 2

MaxStoreScans == 2

\* LD X0, MOV D0 D2, OUT Y0, END
StoreProgram == ArithProgram(Instruction("MOV", <<Device(DeviceD, 0), Device(DeviceD, 2)>>))

\* random-write word elements: none, one in range, one beyond the D range
StoreWordLists == {<<>>, <<RandomInRange>>, <<<<DeviceD, 12288, 500>>>>}

\* random-write double-word elements: none, the last D register, the relay M0
StoreDwordLists == {<<>>, <<<<DeviceD, 12287, 500, 65535>>>>, <<<<DeviceM, 0, 5, 0>>>>}

\* random writes, and batch writes of words and of bits to D and X
StoreRequests ==
    {build_random_write_request(FrameQ, w, d, 0) :
        w \in StoreWordLists, d \in StoreDwordLists}
    \cup {build_batch_write_request(FrameQ, DeviceD, 0, <<65535, 500>>, FALSE),
          build_batch_write_request(FrameQ, DeviceX, 8191, <<65535>>, FALSE),
          build_batch_write_request(FrameQ, DeviceX, 0, <<1, 0>>, TRUE)}

\* _server_loop: one write request handled
StoreWrite ==
    /\ handled < MaxStoreWrites
    /\ \E data \in StoreRequests : Exchange(data)

\* a scan of the loaded program
StoreScan == scan_count < MaxStoreScans /\ ExecuteScan

NextStore == StoreWrite \/ StoreScan \/ SetContact

\* the MOV program loaded, then RUN: state RUN, engine started
StartStore ==
    /\ series = Q_SERIES
    /\ running = TRUE
    /\ memory = InitialMemory
    /\ plc_state = "RUN"
    /\ ladder_running = TRUE
    /\ request = <<>>
    /\ response = <<>>
    /\ memory_before = InitialMemory
    /\ state_before = <<"STOP", FALSE>>
    /\ handled = 0
    /\ programs = <<StoreProgram>>
    /\ timers = None
    /\ counters = None
    /\ seen = <<>>
    /\ held_since = None
    /\ prev_bits = {}
    /\ scan_count = 0
    /\ scan_pc = "idle"
    /\ scan_current = FALSE
    /\ scan_v1 = 0
    /\ scan_v2 = 0
    /\ scan_view = InitialMemory
    /\ req_pc = 0
    /\ req_words = <<>>
    /\ req_view = InitialMemory
    /\ IdleGvsp
    /\ InitHeartbeat /\ IdleSend /\ IdleMix /\ IdleCam /\ IdleConn /\ IdleExt

SpecStore == StartStore /\ [][NextStore]_vars

(***************************************************************************)
(* MC: requests whose device-code byte names no DeviceType                 *)
(***************************************************************************)
\* number of requests in one behaviour
MaxCodeRequests == 2

\* the wire code of D
CodeOfD == DeviceD.device_code

\* bytes that are the wire code of no member of DeviceType
UnknownCodes == {c \in {0, 255} : \A i \in 1..Len(DeviceTypes) : DeviceTypes[i].device_code # c}

\* a device type record as the request builders use it: only device_code is read
WireType(code) == DeviceType("", code, 16)

CodeKinds ==
    {"read_words", "read_bits", "write_words", "write_bits", "random_read", "random_write"}

\* the 3E request of each kind, addressing device 0 with the given code byte
CodeRequest(kind, code) ==
    IF kind = "read_words" THEN build_batch_read_request(FrameQ, WireType(code), 0, 2, FALSE)
    ELSE IF kind = "read_bits" THEN build_batch_read_request(FrameQ, WireType(code), 0, 2, TRUE)
    ELSE IF kind = "write_words"
    THEN build_batch_write_request(FrameQ, WireType(code), 0, <<500, 1>>, FALSE)
    ELSE IF kind = "write_bits"
    THEN build_batch_write_request(FrameQ, WireType(code), 0, <<1, 1>>, TRUE)
    ELSE IF kind = "random_read"
    THEN build_frame(FrameQ, PackU16(RANDOM_READ) \o PackU16(0) \o <<1, 1>>
                             \o PackU24(0) \o <<code>> \o PackU24(0) \o <<code>>)
    ELSE build_random_write_request(FrameQ, <<<<WireType(code), 0, 3>>>>,
                                    <<<<WireType(code), 1, 65535, 2>>>>, 0)

\* _server_loop: one request with a known or an unknown device code
CodeExchange ==
    /\ handled < MaxCodeRequests
    /\ \E kind \in CodeKinds, code \in UnknownCodes \cup {CodeOfD, DeviceM.device_code} :
          Exchange(CodeRequest(kind, code))

NextCode == CodeExchange

\* the Q series server started, nothing written yet
StartCode == IdleMc /\ IdleGvsp /\ InitScan /\ InitHeartbeat /\ IdleSend /\ IdleMix /\ IdleCam /\ IdleConn /\ IdleExt

SpecCode == StartCode /\ [][NextCode]_vars

(***************************************************************************)
(* Ladder: PLS and PLF                                                     *)
(***************************************************************************)
\* number of scans of the pulse program
MaxPulseScans == 4

\* LD X0, PLS M0, LD X1, PLF M1, END
PulseProgram ==
    <<Instruction("LD", <<Device(DeviceX, 0)>>), Instruction("PLS", <<Device(DeviceM, 0)>>),
      Instruction("LD", <<Device(DeviceX, 1)>>), Instruction("PLF", <<Device(DeviceM, 1)>>),
      Instruction("END", <<>>)>>

\* a scan of the pulse program
PulseScan == scan_count < MaxPulseScans /\ ExecuteScan

NextPulse == PulseScan \/ SetInput

\* the pulse program loaded, then RUN: state RUN, engine started
StartPulse ==
    /\ series = Q_SERIES
    /\ running = TRUE
    /\ memory = InitialMemory
    /\ plc_state = "RUN"
    /\ ladder_running = TRUE
    /\ request = <<>>
    /\ response = <<>>
    /\ memory_before = InitialMemory
    /\ state_before = <<"STOP", FALSE>>
    /\ handled = 0
    /\ programs = <<PulseProgram>>
    /\ timers = None
    /\ counters = None
    /\ seen = <<>>
    /\ held_since = None
    /\ prev_bits = {}
    /\ scan_count = 0
    /\ scan_pc = "idle"
    /\ scan_current = FALSE
    /\ scan_v1 = 0
    /\ scan_v2 = 0
    /\ scan_view = InitialMemory
    /\ req_pc = 0
    /\ req_words = <<>>
    /\ req_view = InitialMemory
    /\ IdleGvsp
    /\ InitHeartbeat /\ IdleSend /\ IdleMix /\ IdleCam /\ IdleConn /\ IdleExt

SpecPulse == StartPulse /\ [][NextPulse]_vars

NextStream ==
    \/ GvcpReceiveStream \/ GvcpWriteEntry \/ GvcpJoinReturns
    \/ (\E t \in DOMAIN senders : SenderTest(t))
    \/ (\E t \in DOMAIN senders : SenderWake(t))
    \/ (\E t \in DOMAIN senders : SenderSend(t))
    \/ CamTick \/ CamRecvTimeout \/ CamStop

StartStream == InitCam /\ InitHeartbeat /\ IdleSend /\ IdleMix /\ IdleGvsp /\ IdleMc /\ InitScan /\ IdleConn /\ IdleExt

SpecStream == StartStream /\ [][NextStream]_vars

\* heartbeat intervals a client writes: shorter and longer than the default
LapseValues == {1000, 5000}

LapseRead == GvcpRequest(GVCPCommand.READREG_CMD, 259, PackBE32(BootstrapRegister.HEARTBEAT_TIMEOUT))

\* taking control, writing the heartbeat register, reading it back
LapseRequests ==
    {GvcpRequest(GVCPCommand.WRITEREG_CMD, 262,
                 WriteEntry(BootstrapRegister.CONTROL_CHANNEL_PRIVILEGE, 2)),
     LapseRead}
    \cup {GvcpRequest(GVCPCommand.WRITEREG_CMD, 258,
                      WriteEntry(BootstrapRegister.HEARTBEAT_TIMEOUT, v)) : v \in LapseValues}

LapseReceive == \E data \in LapseRequests : GvcpReceive(data)

NextLapse == LapseReceive \/ GvcpWriteEntry \/ Tick \/ CamRecvTimeout

\* the camera server started, its first recvfrom pending
StartLapse == InitCam /\ InitHeartbeat /\ IdleSend /\ IdleMix /\ IdleGvsp /\ IdleMc /\ InitScan /\ IdleConn /\ IdleExt

SpecLapse == StartLapse /\ [][NextLapse]_vars

NextGvcp == GvcpReceiveRegister \/ GvcpReceiveFraming \/ GvcpReceiveStray \/ GvcpWriteEntry

StartGvcp == InitCam /\ InitHeartbeat /\ IdleSend /\ IdleMix /\ IdleGvsp /\ IdleMc /\ InitScan /\ IdleConn /\ IdleExt

SpecGvcp == StartGvcp /\ [][NextGvcp]_vars

NextSend == SendLeader \/ SendPayload \/ SendTrailer

StartSend ==
    /\ packet_size \in SendPacketSizes
    /\ block_id = 0
    /\ net = {}
    /\ current_block_id = 0
    /\ packet_buffer = <<>>
    /\ image_buffer = None
    /\ image_ready = FALSE
    /\ sent_image = None
    /\ rx_log = <<>>
    /\ IdleSend /\ IdleMix /\ IdleMc /\ InitScan /\ InitHeartbeat /\ IdleCam /\ IdleConn /\ IdleExt

SpecSend == StartSend /\ [][NextSend]_vars

NextMix == StreamOverlapped \/ ReceiveMixed \/ GetImage

StartMix == InitGvsp /\ IdleMix /\ IdleSend /\ IdleMc /\ InitScan /\ InitHeartbeat /\ IdleCam /\ IdleConn /\ IdleExt

SpecMix == StartMix /\ [][NextMix]_vars

NextHeartbeat ==
    Tick \/ RecvWritePrivilege \/ RecvRequest \/ RecvOther \/ RecvTimeout

\* the camera server started, its first recvfrom pending
StartHeartbeat == InitHeartbeat /\ IdleSend /\ IdleMix /\ IdleCam /\ IdleConn /\ IdleExt /\ IdleGvsp /\ IdleMc /\ InitScan

SpecHeartbeat == StartHeartbeat /\ [][NextHeartbeat]_vars

(***************************************************************************)
(* GVSP reassembly (C1)                                                    *)
(***************************************************************************)
\* every packet of the frame last sent has been handed to the receiver once
AllDelivered == sent_image # None /\ net = {}

NotConsumed == \A i \in 1..Len(rx_log) : rx_log[i][1] # GET_IMAGE

\* the receiver signals a frame whose shape and bytes are those sent
Reassembled == image_ready /\ image_buffer = sent_image

LeaderFirstTrailerLast ==
    /\ Len(rx_log) >= 2
    /\ rx_log[1][1] = DATA_LEADER
    /\ rx_log[Len(rx_log)][1] = DATA_TRAILER

\* C1 (as stated): after the Leader, the Payloads and the Trailer of one block
\* were delivered once each in ANY order, the receiver delivers the original
\* bytes.
C1_AnyPermutation == (AllDelivered /\ NotConsumed) => Reassembled

\* C1 (amended): when the Leader is delivered first and the Trailer last, with
\* the Payloads in any order in between, the receiver delivers the original
\* bytes.
C1_PayloadsAnyOrder ==
    (AllDelivered /\ NotConsumed /\ LeaderFirstTrailerLast) => Reassembled

\* a frame was reassembled from payloads that arrived in descending order
C1_Witness ==
    /\ AllDelivered /\ NotConsumed /\ LeaderFirstTrailerLast
    /\ Len(rx_log) >= 4
    /\ rx_log[2][2] > rx_log[3][2]
    /\ Reassembled

(***************************************************************************)
(* MC exchanges (C2, C4, C5, C6, C8, C9, C10)                              *)
(***************************************************************************)
Server == ServerState(memory, plc_state, ladder_running)

\* an end code 0xC0xx
IsC0xx(end_code) == end_code \div 256 = 192

\* the end code the library client reads from the response (by its series)
EndCode == parse_response(response, series).end_code

\* C2: a 1E word batch write of n values to D[a..a+n-1] followed by a 1E word
\* batch read of the same range returns end code 0 and the values written.
C2_OneERoundTrip ==
    \A v \in ValueLists :
        request = build_1e_write_request(0, v, FALSE) =>
            /\ parse_1e_response(response).end_code = 0
            /\ \E rd \in {parse_1e_response(
                              handle_request(Server,
                                  build_1e_read_request(0, Len(v), FALSE)).response)} :
                   rd.end_code = 0 /\ rd.data = PackWords(v)

\* some of the 16 * count bits of a word write at a[2] lies outside the range
BitsOutOfRange(dt, start, count) ==
    \E i \in 0..(16 * count - 1) : ~validate_address(dt, start + i)

\* C4: a word-unit batch write to a bit device with any of its 16 * count
\* target bits out of range is answered with a C0xx end code and changes no bit.
C4_WordWriteToBitDeviceChecked ==
    \A t \in BitTargets, v \in ValueLists :
        (/\ request = build_batch_write_request(FrameQ, t[1], t[2], v, FALSE)
         /\ BitsOutOfRange(t[1], t[2], Len(v)))
        => IsC0xx(EndCode) /\ memory = memory_before

\* an element of a random write that addresses something out of range
RandomOutOfRange(words, dwords) ==
    \/ \E i \in 1..Len(words) :
          IF is_bit_device(words[i][1])
          THEN BitsOutOfRange(words[i][1], words[i][2], 1)
          ELSE ~validate_address(words[i][1], words[i][2])
    \/ \E i \in 1..Len(dwords) :
          \/ ~validate_address(dwords[i][1], dwords[i][2])
          \/ ~validate_address(dwords[i][1], dwords[i][2] + 1)

\* C5: a random write with an out-of-range element (the second word of a
\* double word included) or a truncated element list is answered with a C0xx
\* end code and changes nothing.
C5_RandomWriteAllOrNothing ==
    \A w \in RandomWordLists, d \in RandomDwordLists, cut \in {0, 1} :
        (/\ request = build_random_write_request(FrameQ, w, d, cut)
         /\ (cut > 0 \/ RandomOutOfRange(w, d)))
        => IsC0xx(EndCode) /\ memory = memory_before

\* some address of start .. start + count - 1 lies outside the range
WordsOutOfRange(dt, start, count) ==
    \E i \in 0..(count - 1) : ~validate_address(dt, start + i)

\* C6: a batch write that fails the range check leaves the whole store as it
\* was, mapped addresses included, both at the store (set_words, set_bits)
\* and through the dispatcher, which answers 0xC051.
C6_FailedBatchWriteLeavesStore ==
    /\ \A t \in WordTargets, v \in ValueLists :
          WordsOutOfRange(t[1], t[2], Len(v))
          => /\ set_words(memory, t[1], t[2], v) = memory
             /\ \A f \in Frames :
                   request = build_batch_write_request(f, t[1], t[2], v, FALSE)
                   => EndCode = END_RANGE_ERROR /\ memory = memory_before
    /\ \A t \in BitTargets, v \in BitLists :
          WordsOutOfRange(t[1], t[2], Len(v))
          => /\ set_bits(memory, t[1], t[2], [i \in 1..Len(v) |-> v[i] # 0]) = memory
             /\ request = build_batch_write_request(FrameQ, t[1], t[2], v, TRUE)
                => EndCode = END_RANGE_ERROR /\ memory = memory_before

\* a word write beyond the range, refused on a store that holds data
C6_Witness ==
    /\ \E v \in ValueLists :
          /\ request = build_batch_write_request(FrameQ, DeviceD, 12287, v, FALSE)
          /\ WordsOutOfRange(DeviceD, 12287, Len(v))
    /\ EndCode = END_RANGE_ERROR
    /\ memory_before # InitialMemory
    /\ memory = memory_before

\* the well-formed requests of each frame family
Requests3E == {d \in BinaryRequests : UnpackLE(Slice(d, 0, 2)) = SUBHEADER_3E_REQUEST}

Requests4E == {d \in BinaryRequests : UnpackLE(Slice(d, 0, 2)) = SUBHEADER_4E_REQUEST}

Requests3EAscii == {d \in AsciiRequests : Slice(d, 0, 4) = Text5000 /\ Len(d) >= 30}

Requests4EAscii == {d \in AsciiRequests : Slice(d, 0, 4) = Text5400 /\ Len(d) >= 38}

\* C8: the response is in the frame family of the request, whatever series
\* the server is configured for; a 4E response carries the request's serial.
C8_ResponseMirrorsFrame ==
    /\ request \in Requests3E
       => Slice(response, 0, 2) = PackU16(SUBHEADER_3E_RESPONSE)
    /\ request \in Requests4E
       => /\ Slice(response, 0, 2) = PackU16(SUBHEADER_4E_RESPONSE)
          /\ Slice(response, 2, 4) = Slice(request, 2, 4)
    /\ request \in Requests3EAscii => Slice(response, 0, 4) = TextD000
    /\ request \in Requests4EAscii
       => /\ Slice(response, 0, 4) = TextD400
          /\ Slice(response, 4, 8) = Slice(request, 4, 8)
    /\ request \in OneERequests => response[1] = request[1] + 128

\* ten bytes under the subheader 0x1234, in either byte order
Requests1234 == {d \in MalformedRequests : Slice(d, 0, 2) \in {<<52, 18>>, <<18, 52>>}}

Unchanged == memory = memory_before /\ <<plc_state, ladder_running>> = state_before

\* C9 as stated: the request under subheader 0x1234 is answered in the 3E
\* family with end code 0x0050 and changes no device and no PLC state.
C9_AnsweredIn3E ==
    request \in Requests1234
    => /\ ~parse_3e_response(response).raised
       /\ parse_3e_response(response).end_code = END_COMMAND_ERROR
       /\ Unchanged

\* C9 amended: the request under subheader 0x1234 is answered in the 1E
\* family (first byte | 0x80, end code byte 0x50, then 0x0050) and changes no
\* device and no PLC state.
C9_AnsweredIn1E ==
    request \in Requests1234
    => /\ response = <<request[1] + 128, END_COMMAND_ERROR>> \o PackU16(END_COMMAND_ERROR)
       /\ parse_1e_response(response).end_code = END_COMMAND_ERROR
       /\ Unchanged

\* the malformed request reaches a server that holds data
C9_Witness ==
    /\ request \in Requests1234
    /\ memory # InitialMemory
    /\ response[1] = 180

\* C10: parse_request names the format the leading bytes select: 0x50 0x00
\* 3E binary, 0x54 0x00 4E binary, "5000" 3E ASCII, "5400" 4E ASCII, and a
\* first byte <= 0x0F 1E.
C10_ClassifiedByLeadingBytes ==
    request # <<>> =>
    \E ft \in {parse_request(request).frame_type} :
        /\ Slice(request, 0, 2) = <<80, 0>> => ft = "3E"
        /\ Slice(request, 0, 2) = <<84, 0>> => ft = "4E"
        /\ Slice(request, 0, 4) = Text5000 => ft = "3E_ASCII"
        /\ Slice(request, 0, 4) = Text5400 => ft = "4E_ASCII"
        /\ request[1] <= 15 => ft = "1E"

(***************************************************************************)
(* Scan thread against request handler (C3)                                *)
(***************************************************************************)
\* positions of the scan thread inside one instruction, after its first
\* store access: ADD between its reads and its write, the timer reset
\* between its three clears
InsideInstruction == {"add_v2", "add_set", "rst_tc", "rst_tn"}

\* C3: a ladder instruction and a batch write each run atomically with
\* respect to the store: from the first to the last store access of one, the
\* other thread changes nothing in the store.
C3_AtomicUnderStoreLock ==
    /\ scan_pc \in InsideInstruction => memory = scan_view
    /\ req_pc > 1 => memory = req_view

(***************************************************************************)
(* GVCP heartbeat (C7)                                                     *)
(***************************************************************************)
\* C7: with the privilege held and the last request at t0 = last_heartbeat,
\* the privilege is cleared after t0 + T and not later than t0 + T + poll:
\* it is never cleared earlier, and it never stays set past t0 + T + poll,
\* whatever other datagrams arrive.
C7_ClearedWithinOnePoll ==
    /\ control_privilege > 0
       => now <= last_heartbeat + HEARTBEAT_TIMEOUT_MS + RECV_TIMEOUT_MS
    /\ cleared # None
       => /\ cleared[1][1] > cleared[1][2] + HEARTBEAT_TIMEOUT_MS
          /\ cleared[1][1] <= cleared[1][2] + HEARTBEAT_TIMEOUT_MS + RECV_TIMEOUT_MS

(***************************************************************************)
(* MC request round trip (C11)                                             *)
(***************************************************************************)
\* the 'series' key of the parsed record: _parse_4e_request sets IQR_SERIES,
\* every other parser Q_SERIES
RecordSeries(data) ==
    IF Len(data) >= 2
       /\ UnpackLE(Slice(data, 0, 2)) \in {SUBHEADER_4E_REQUEST, SUBHEADER_4E_RESPONSE}
    THEN IQR_SERIES ELSE Q_SERIES

\* the two-character device name of the ASCII frames for a device code
AsciiNameOfCode(device_code) ==
    LET hits == {i \in 1..Len(AsciiDeviceMap) : AsciiDeviceMap[i][2] = device_code}
        name == IF hits = {} THEN <<68>> ELSE AsciiDeviceMap[CHOOSE i \in hits : TRUE][1]
    IN IF Len(name) = 1 THEN name \o <<42>> ELSE name

\* the request the builders of the repository make from a parsed record:
\* PLCTestClient.build_1e_*_request for a '1E' record, the ASCII builder for
\* the ASCII records, MCProtocol._build_frame by 'series' for the others
encode_request(rec, rec_series) ==
    LET cd      == rec.command_data
        address == UnpackLE(Slice(cd, 0, 3))
        count   == UnpackLE(Slice(cd, 4, 6))
        wd      == Slice(cd, 6, Len(cd))
        is_bit  == rec.sub_command = SUB_BIT
        values  == IF is_bit THEN wd ELSE WriteWords(wd, Len(wd) \div 2)
        tail    == IF is_bit THEN [i \in 1..Len(wd) |-> IF wd[i] # 0 THEN 49 ELSE 48]
                   ELSE HexText([i \in 1..(2 * Len(values)) |->
                                    wd[IF i % 2 = 1 THEN i + 1 ELSE i - 1]])
    IN IF rec.frame_type = "1E"
       THEN IF rec.original_command \in {0, 1}
            THEN build_1e_read_request(address, count, rec.original_command = 0)
            ELSE build_1e_write_request(address, values, rec.original_command = 2)
       ELSE IF rec.frame_type \in {"3E_ASCII", "4E_ASCII"}
       THEN build_ascii_request(IF rec.frame_type = "3E_ASCII" THEN -1 ELSE rec.serial_no,
                                rec.command, rec.sub_command,
                                AsciiNameOfCode(IF Len(cd) >= 4 THEN cd[4] ELSE 168),
                                address, count, tail)
       ELSE build_frame(MCFrame(rec_series, rec.serial_no),
                        PackU16(rec.command) \o PackU16(rec.sub_command) \o cd)

\* the canonical form of a request: ASCII text in upper case
Canonical(data) ==
    IF Len(data) >= 4 /\ Slice(data, 0, 4) \in {Text5000, Text5400}
    THEN [i \in 1..Len(data) |-> Upper(data[i])] ELSE data

\* the complete batch and control requests of the five formats
SupportedRequests ==
    BatchReadRequests \cup BatchWriteRequests \cup ControlRequests \cup OneERequests
    \cup {d \in AsciiRequests : Len(d) >= 42}

\* what decoding and re-encoding makes of a request
RoundTrip(data) ==
    The({IF rec.raised THEN <<>> ELSE encode_request(rec, RecordSeries(data)) :
            rec \in {parse_request(data)}})

\* C11: for every supported request of the five formats, decoding it and
\* encoding the decoded record again gives the request's canonical bytes.
C11_CodecRoundTrip ==
    request \in SupportedRequests => RoundTrip(request) = Canonical(request)

(***************************************************************************)
(* C12                                                                     *)
(***************************************************************************)
ResetRequest == build_remote_control_request(FrameQ, REMOTE_RESET)

\* every device of every type reads 0 / false
AllDevicesZero ==
    \A code \in DOMAIN memory : \A a \in DOMAIN memory[code] : memory[code][a] = 0

C13_EngineRunsIffRun == ladder_running <=> plc_state = "RUN"

(***************************************************************************)
(* C14                                                                     *)
(***************************************************************************)
IsPrefix(a, b) == Len(a) <= Len(b) /\ \A i \in 1..Len(a) : a[i] = b[i]

\* X0 rises, X0 falls, X1 rises, as <<X0, X1>> at the scans, from all false
SelfHoldStory ==
    <<<<FALSE, FALSE>>, <<TRUE, FALSE>>, <<FALSE, FALSE>>, <<FALSE, TRUE>>>>

\* the scans so far follow the story, whether or not a scan ran before X0 rose
FollowsStory == IsPrefix(seen, SelfHoldStory) \/ IsPrefix(seen, Tail(SelfHoldStory))

\* how far: 1 before X0 rises, 2 once it rose, 3 once it fell, 4 once X1 rose
StoryPhase ==
    IF seen = <<>> THEN 1
    ELSE IF seen[1] = <<FALSE, FALSE>> THEN Len(seen) ELSE Len(seen) + 1

\* C14: with sample program 1 and the inputs following 'X0 rises, X0 falls,
\* X1 rises', Y0 after each scan is false before X0 rises, true once it rose
\* and after it fell, and false once X1 rose
C14_SelfHoldLatches ==
    (programs = <<create_sample_program_1>> /\ FollowsStory)
        => (get_bit(memory, DeviceY, 0) <=> StoryPhase \in {2, 3})

\* the whole story has been scanned
C14_Witness ==
    /\ programs = <<create_sample_program_1>>
    /\ seen = SelfHoldStory
    /\ ~get_bit(memory, DeviceY, 0)

(***************************************************************************)
(* C15                                                                     *)
(***************************************************************************)
\* a step is a scan of the timer program that read X0 true
TimerScanHeld ==
    /\ scan_count' = scan_count + 1
    /\ programs = <<create_sample_program_2>>
    /\ held_since' # None

\* C15: with sample program 2 and X0 read true by every scan since the one
\* that started the timer, after a scan TC0 is true iff at least 2.0 s have
\* passed since that scan, and TN0 is at most 20 after every scan
C15_TimerContactAfterTwoSeconds ==
    [][/\ TimerScanHeld
           => /\ get_bit(memory', DeviceTC, 0) <=> now - held_since'[1] >= 2000
              /\ timers'[1].contact <=> now - held_since'[1] >= 2000
       /\ (scan_count' = scan_count + 1 /\ programs = <<create_sample_program_2>>)
           => get_word(memory', DeviceTN, 0) <= 20 /\ TimerOf(timers').current_value <= 20
      ]_vars

\* the contact has closed, well after 2.0 s, with X0 still held
C15_Witness ==
    /\ programs = <<create_sample_program_2>>
    /\ held_since # None
    /\ now - held_since[1] > 2000
    /\ get_bit(memory, DeviceTC, 0)
    /\ get_word(memory, DeviceTN, 0) = 20
    /\ get_bit(memory, DeviceY, 0)

(***************************************************************************)
(* C16                                                                     *)
(***************************************************************************)
\* a step is a scan of the counter program, X1 read false by every scan
CounterScan ==
    /\ scan_count' = scan_count + 1
    /\ programs = <<create_sample_program_3>>
    /\ X1NeverSeen'

\* this scan reads X0 true and the previous one (if any) read it false
SeesRise == InputsNow[1] /\ (seen = <<>> \/ ~seen[Len(seen)][1])

\* what the scan adds to the count of C0
CountGain == CounterOf(counters').count - CounterOf(counters).count

\* C16 as stated: a scan adds exactly one to the count when it is the first
\* to read X0 true, and nothing while X0 stays true (or false)
C16_HoldCountsOnce ==
    [][CounterScan => CountGain = (IF SeesRise THEN 1 ELSE 0)]_vars

\* C16 amended: a scan adds exactly one to the count when it is the first to
\* read X0 true and the count is below the set value 5, and nothing otherwise;
\* CN0 holds the count
C16_HoldCountsOnceBelowSetValue ==
    [][CounterScan
          => /\ CountGain = (IF SeesRise /\ CounterOf(counters).count < 5 THEN 1 ELSE 0)
             /\ get_word(memory', DeviceCN, 0) = CounterOf(counters').count
      ]_vars

\* X0 was held over several scans, and a sixth rise met the full counter
C16_Witness ==
    /\ programs = <<create_sample_program_3>>
    /\ X1NeverSeen
    /\ Rises(seen) = 6
    /\ scan_count > Len(seen)
    /\ CounterOf(counters).count = 5

(***************************************************************************)
(* C17                                                                     *)
(***************************************************************************)
\* X<a> as the last scan left the store
ScannedX(a) == get_bit(scan_view, DeviceX, a)

\* C17: after a scan of sample program 5, Y0 = (X0 AND X1) OR (X2 AND X3)
C17_OrOfTwoAnds ==
    (programs = <<create_sample_program_5>> /\ scan_count >= 1)
        => (get_bit(scan_view, DeviceY, 0)
                <=> (ScannedX(0) /\ ScannedX(1)) \/ (ScannedX(2) /\ ScannedX(3)))

(***************************************************************************)
(* C18                                                                     *)
(***************************************************************************)
\* C18: with sample program 3 and X1 read false by every scan, Y0 after a scan
\* is true iff the scans have seen at least five rises of X0, and CN0 is the
\* number of rises seen, at most 5
C18_FifthRiseClosesContact ==
    (programs = <<create_sample_program_3>> /\ X1NeverSeen)
        => /\ get_bit(memory, DeviceY, 0) <=> Rises(seen) >= 5
           /\ get_word(memory, DeviceCN, 0) = Min(Rises(seen), 5)
           /\ get_word(memory, DeviceCN, 0) <= 5

\* one rise beyond the fifth
C18_Witness ==
    /\ programs = <<create_sample_program_3>>
    /\ X1NeverSeen
    /\ Rises(seen) > 5
    /\ get_bit(memory, DeviceY, 0)
    /\ get_word(memory, DeviceCN, 0) = 5

(***************************************************************************)
(* C19                                                                     *)
(***************************************************************************)
\* what a 3E binary client reads back from D[a..a+n-1] in the current state
ReadBack3E(a, n) ==
    parse_3e_response(
        handle_request(ServerState(memory, plc_state, ladder_running),
                       build_batch_read_request(FrameQ, DeviceD, a, n, FALSE)).response)

\* C19: right after a 3E binary batch word write of the values v to an
\* in-range D[a..a+n-1], the write has been answered with end code 0 and a 3E
\* binary batch word read of the same range returns end code 0 and v in order
C19_WriteThenRead3E ==
    \A t \in WordTargets, v \in ValueLists :
        (/\ request = build_batch_write_request(FrameQ, DeviceD, t[2], v, FALSE)
         /\ validate_range(DeviceD, t[2], Len(v)))
            => /\ parse_3e_response(response) = Response(END_OK, <<>>)
               /\ ReadBack3E(t[2], Len(v)) = Response(END_OK, PackWords(v))

(***************************************************************************)
(* C20                                                                     *)
(***************************************************************************)
\* the bit devices that have addresses in the configured series
BitDevices ==
    {DeviceTypes[i] : i \in {j \in 1..Len(DeviceTypes) :
        is_bit_device(DeviceTypes[j]) /\ DeviceTypes[j].code \in DOMAIN device_ranges}}

\* the last address of T aligned on 16, and for X the first as well
AlignedAddresses(dt) ==
    {a \in {device_ranges[dt.code].max_address - 15} \cup (IF dt = DeviceX THEN {0} ELSE {}) :
        a % 16 = 0 /\ validate_address(dt, a)}

\* 0x5555 and 0xAAAA
DualityWords == {21845, 43690}

\* sum over i in 0..15 of bit(T, a + i) shifted left by i
RECURSIVE BitSum(_, _, _, _)
BitSum(mem, dt, a, i) ==
    IF i > 15 THEN 0
    ELSE (IF get_bit(mem, dt, a + i) THEN Pow2(i) ELSE 0) + BitSum(mem, dt, a, i + 1)

\* command data of a batch access: address, device code, count
BatchData(dt, a, count) == PackU24(a) \o <<dt.device_code>> \o PackU16(count)

\* the dispatcher's WORD batch read of one word of T at a, in the current state
WordBatchRead(dt, a) ==
    cmd_batch_read(ServerState(memory, plc_state, ladder_running), SUB_WORD,
                   BatchData(dt, a, 1))

\* the dispatcher's WORD batch write of v to T at a, in the current state
WordBatchWrite(dt, a, v) ==
    cmd_batch_write(ServerState(memory, plc_state, ladder_running), SUB_WORD,
                    BatchData(dt, a, 1) \o PackU16(v))

\* bit i of v is bit(T, a + i) in mem, for every i
HoldsWord(mem, dt, a, v) == \A i \in 0..15 : get_bit(mem, dt, a + i) <=> BitOf(v, i)

EntryWritten(address, value) ==
    /\ gvcp_pc = "write"
    /\ <<gvcp_pc', gvcp_i'>> # <<gvcp_pc, gvcp_i>>
    /\ Len(GvcpPayload(gvcp_req)) - gvcp_i >= 8
    /\ UnpackBE(Slice(GvcpPayload(gvcp_req), gvcp_i, gvcp_i + 4)) = address
    /\ UnpackBE(Slice(GvcpPayload(gvcp_req), gvcp_i + 4, gvcp_i + 8)) = value

StartWritten == EntryWritten(BootstrapRegister.ACQUISITION_START, 1)

StopWritten == EntryWritten(BootstrapRegister.ACQUISITION_STOP, 1)

\* a sender thread is started and the channel is streaming
BecomesStreaming == streaming' /\ Len(senders') = Len(senders) + 1 /\ stream_thread' = Len(senders')

\* C21 as stated: an idle channel that is written ACQUISITION_START = 1 becomes
\* streaming with a sender thread started, and the channel changes only from idle
\* to streaming on ACQUISITION_START = 1 and from streaming to idle on
\* ACQUISITION_STOP = 1
C21_StartAndStopOnly ==
    [][/\ (~streaming /\ StartWritten => BecomesStreaming)
       /\ (~streaming /\ streaming' => StartWritten)
       /\ (streaming /\ ~streaming' => StopWritten)]_vars

\* C21 amended: an idle channel whose destination address and port are set and
\* that is written ACQUISITION_START = 1 becomes streaming with a sender thread
\* started; without a destination it stays idle; the channel changes only from
\* idle to streaming on ACQUISITION_START = 1 and from streaming to idle on
\* ACQUISITION_STOP = 1 or when stop() shuts the server down
C21_StartWithDestination ==
    [][/\ (~streaming /\ StartWritten /\ destination_set => BecomesStreaming)
       /\ (~streaming /\ StartWritten /\ ~destination_set => ~streaming')
       /\ (~streaming /\ streaming' => StartWritten)
       /\ (streaming /\ ~streaming' => StopWritten \/ (cam_running /\ ~cam_running'))]_vars

\* C21 witness: a channel started by ACQUISITION_START = 1 has emitted a frame
C21_Witness ==
    /\ streaming
    /\ frames_sent > 0
    /\ BootstrapRegister.ACQUISITION_START \in DOMAIN registers
    /\ registers[BootstrapRegister.ACQUISITION_START] = 1

(***************************************************************************)
(* C22                                                                     *)
(***************************************************************************)
\* sender threads that have not left _stream_loop
LiveSenders == {t \in DOMAIN senders : senders[t].pc # "done"}

\* C22: when the handling of ACQUISITION_STOP = 1 completes the sender thread has
\* ended, no frame is emitted between a completed stop and the next start, and
\* never do two sender threads run at once
C22_SenderJoinedOnStop ==
    [][/\ Cardinality(LiveSenders') <= 1
       /\ (gvcp_pc = "join" /\ gvcp_pc' # "join" => senders[stream_thread].pc = "done")
       /\ (frames_sent' # frames_sent => ~quiet)]_vars

(***************************************************************************)
(* C25                                                                     *)
(***************************************************************************)
\* the identity the server is configured with, as a discovery record
ConfiguredIdentity ==
    GigEDeviceInfo(LocalMac, config.vendor, config.model, config.serial_number,
                   config.user_defined_name, config.device_version)

\* the last datagram was a Discovery request and its handling is over
DiscoveryAnswered ==
    /\ gvcp_pc = "recv"
    /\ GVCPHeader(gvcp_req) # None
    /\ GVCPHeader(gvcp_req)[1].key = 66
    /\ GVCPHeader(gvcp_req)[1].command = GVCPCommand.DISCOVERY_CMD

\* C25: the record the client builds from the server's Discovery-Ack carries the
\* configured vendor, model, version, serial number, user-defined name and MAC
C25_DiscoveryRecordMatchesIdentity ==
    DiscoveryAnswered =>
        /\ Len(acks) = 1
        /\ parse_discovery_ack(acks[1]) = Some(ConfiguredIdentity)

(***************************************************************************)
(* C26                                                                     *)
(***************************************************************************)
\* bytes of one entry of a request: an address for reads, two u32 otherwise
EntrySize(command) == IF command = GVCPCommand.READREG_CMD THEN 4 ELSE 8

\* a register or memory request with a valid key whose payload is no whole
\* number of entries
FramingError(data) ==
    /\ GVCPHeader(data) # None
    /\ GVCPHeader(data)[1].key = 66
    /\ GVCPHeader(data)[1].command \in {GVCPCommand.READREG_CMD, GVCPCommand.WRITEREG_CMD, GVCPCommand.READMEM_CMD}
    /\ \/ Len(GvcpPayload(data)) < EntrySize(GVCPHeader(data)[1].command)
       \/ Len(GvcpPayload(data)) % EntrySize(GVCPHeader(data)[1].command) # 0

\* C26: a request with a framing error is answered by exactly one Ack with
\* INVALID_PARAMETER and the request's req_id, and leaves the registers and
\* everything register writes can touch as they were
C26_FramingErrorRejected ==
    gvcp_pc = "recv" /\ FramingError(gvcp_req) =>
        /\ acks = <<Ack(GVCPStatus.INVALID_PARAMETER, GVCPHeader(gvcp_req)[1].command + 1,
                       GVCPHeader(gvcp_req)[1].req_id, <<>>)>>
        /\ SideEffectState = cam_before

(***************************************************************************)
(* C27                                                                     *)
(***************************************************************************)
\* the registers whose write has a side effect
SideEffectAddresses ==
    {BootstrapRegister.STREAM_CHANNEL_0_PORT, BootstrapRegister.STREAM_CHANNEL_0_DEST_IP,
     BootstrapRegister.CONTROL_CHANNEL_PRIVILEGE, BootstrapRegister.ACQUISITION_START,
     BootstrapRegister.ACQUISITION_STOP}

\* the last datagram wrote v to a and was acknowledged, and the step is the
\* handling of a Read-Register of a
WriteThenRead(a, v) ==
    /\ gvcp_pc = "recv"
    /\ GVCPHeader(gvcp_req) # None
    /\ GVCPHeader(gvcp_req)[1].command = GVCPCommand.WRITEREG_CMD
    /\ GvcpPayload(gvcp_req) = WriteEntry(a, v)
    /\ Len(acks) = 1 /\ acks[1].status = GVCPStatus.SUCCESS
    /\ gvcp_handled' = gvcp_handled + 1
    /\ GVCPHeader(gvcp_req') # None
    /\ GVCPHeader(gvcp_req')[1].command = GVCPCommand.READREG_CMD
    /\ GvcpPayload(gvcp_req') = PackBE32(a)

\* the Read-Register is answered with v
ReadReturns(v) ==
    /\ Len(acks') = 1
    /\ acks'[1].status = GVCPStatus.SUCCESS
    /\ acks'[1].command = GVCPCommand.READREG_ACK
    /\ acks'[1].data = PackBE32(v)

\* C27 as stated: for every address without side effect, a Write-Register of
\* (a, v) followed by a Read-Register of a returns v
C27_PlainStorage ==
    [][\A a \in (PlainAddresses \cup StringAddresses) \ SideEffectAddresses : \A v \in RegisterValues :
          WriteThenRead(a, v) => ReadReturns(v)]_vars

\* C27 amended: for every address that has no side effect and is not the address
\* of a string register, a Write-Register of (a, v) followed by a Read-Register
\* of a returns v
C27_PlainStorageExceptStrings ==
    [][\A a \in (PlainAddresses \cup StringAddresses) \ (SideEffectAddresses \cup DOMAIN string_registers) :
          \A v \in RegisterValues : WriteThenRead(a, v) => ReadReturns(v)]_vars

\* C27 witness: 16909060 written to the packet-size register has been read back
C27_Witness ==
    /\ gvcp_pc = "recv"
    /\ gvcp_req = GvcpRequest(GVCPCommand.READREG_CMD, 259, PackBE32(BootstrapRegister.STREAM_CHANNEL_0_PACKET_SIZE))
    /\ BootstrapRegister.STREAM_CHANNEL_0_PACKET_SIZE \in DOMAIN registers
    /\ registers[BootstrapRegister.STREAM_CHANNEL_0_PACKET_SIZE] = 16909060
    /\ acks = <<Ack(GVCPStatus.SUCCESS, GVCPCommand.READREG_ACK, 259, <<1, 2, 3, 4>>)>>

(***************************************************************************)
(* C24                                                                     *)
(***************************************************************************)
\* the bodies of the datagrams k .. n of the frame, concatenated
RECURSIVE Bodies(_, _, _)
Bodies(frame, k, n) == IF k > n THEN <<>> ELSE frame[k].data \o Bodies(frame, k + 1, n)

\* the frame is a Leader with packet_id 0, Payloads with packet_ids 1..N that
\* carry the image in order, N the least number of chunks of payload_size bytes
\* that hold S bytes, and a Trailer, all with one block_id
WellFormedFrame(frame, image_data, payload_size) ==
    LET N == Len(frame) - 2
    IN  /\ Len(frame) >= 2
        /\ frame[1].packet_format = DATA_LEADER /\ frame[1].packet_id = 0
        /\ \A k \in 1..N : frame[k + 1].packet_format = DATA_PAYLOAD /\ frame[k + 1].packet_id = k
        /\ frame[Len(frame)].packet_format = DATA_TRAILER
        /\ \A k \in 1..Len(frame) : frame[k].block_id = frame[1].block_id
        /\ Bodies(frame, 2, N + 1) = image_data
        /\ N * payload_size >= Len(image_data)
        /\ (N - 1) * payload_size < Len(image_data) \/ N = 0

\* C24: every step of the payload loop brings the offset nearer to the end of
\* the image, so the emission ends, and when the Trailer has been sent the frame
\* is one Leader, ceil(S / (P - 8)) Payloads in order that carry the image bytes,
\* and one Trailer, all with the same block_id
C24_FrameWellFormedAndEnds ==
    [][/\ (send_pc = "payload" /\ send_pc' = "payload" => send_offset' > send_offset)
       /\ (send_pc = "payload" /\ send_pc' = "idle" =>
              WellFormedFrame(emitted', send_image.bytes, packet_size - GVSP_HEADER_SIZE))]_vars

(***************************************************************************)
(* C23                                                                     *)
(***************************************************************************)
\* C23: what get_image returns when it does not time out is the frame completed
\* last, whatever datagrams of later blocks were received since
C23_ReturnsLatestAssembledFrame ==
    [][image_ready /\ ~image_ready' =>
          assembled # None /\ image_buffer = Some(assembled[1].image)]_vars

(***************************************************************************)
(* C29                                                                     *)
(***************************************************************************)
\* the step receives the Payload or Trailer p of a block other than the one of
\* the most recent Leader
ForeignReceived(p) ==
    /\ net' = net \ {p}
    /\ p.packet_format \in {DATA_PAYLOAD, DATA_TRAILER}
    /\ p.block_id # current_block_id

\* C29: a Payload or Trailer of another block than the most recent Leader's leaves
\* the frame being assembled, the packet buffer and the ready event as they are,
\* and every frame handed over is the image that was sent with its block_id
C29_ForeignPacketsIgnored ==
    [][/\ \A p \in net : ForeignReceived(p) =>
             UNCHANGED <<current_block_id, packet_buffer, image_buffer, image_ready>>
       /\ (assembled' # assembled =>
              assembled'[1].image = sent_frames[assembled'[1].block + 1])]_vars

\* C29 witness: the frame of block 1 was handed over although a Payload or
\* Trailer of another block had been received in between
C29_Witness ==
    /\ foreign_dropped
    /\ assembled # None
    /\ assembled[1].block = 1
    /\ assembled[1].image = sent_frames[2]
    /\ sent_frames[1] # sent_frames[2]

(***************************************************************************)
(* C28                                                                     *)
(***************************************************************************)
\* the step handles the request waiting on connection c, the only open one
HandlesRequestOf(c) ==
    /\ open_conns = {c}
    /\ inbox[c] # None
    /\ request' = inbox[c][1]
    /\ inbox' = [inbox EXCEPT ![c] = None]

\* what is sent on connection c answers the request received on c
AnswersOn(c) ==
    /\ pending # None
    /\ pending[1].conn = c
    /\ outbox'[c] = Append(outbox[c], pending[1].response)

\* a queued client is accepted once no connection is held
WaitingAccepted ==
    (running /\ client_socket = None /\ backlog # <<>>)
        ~> (client_socket # None \/ ~running)

\* a request waits on the connection the server holds
HeldRequest == client_socket # None /\ inbox[client_socket[1]] # None

\* the request of the accepted client is handled
AcceptedServed == HeldRequest ~> (~HeldRequest \/ ~running)

\* C28: the MC server holds at most one accepted connection; a request is handled
\* only from that connection, requests waiting on other connections stay unread,
\* each response is sent on the connection its request came from, and while the
\* server runs a queued client is accepted after the held connection is gone and
\* its request is handled.
C28_OneClientAtATime ==
    /\ [][/\ Cardinality(open_conns') <= 1
          /\ (handled' # handled => \E c \in Clients : HandlesRequestOf(c))
          /\ \A c \in Clients : outbox'[c] # outbox[c] => AnswersOn(c)]_vars
    /\ WaitingAccepted
    /\ AcceptedServed

\* C28 witness: the second client connected and sent its request while the first
\* connection was open; it was accepted after the first was answered and gone,
\* and got its own answer.
C28_Witness ==
    /\ Len(accept_log) = 2
    /\ accept_log[2] \in queued_behind
    /\ outbox[accept_log[1]] # <<>>
    /\ outbox[accept_log[2]] # <<>>
    /\ outbox[accept_log[1]] # outbox[accept_log[2]]

(***************************************************************************)
(* C30                                                                     *)
(***************************************************************************)
\* the arithmetic instruction of the loaded program
ArithInst == programs[1][2]

\* the 16-bit value an operand has at the scan
OperandNow(o) ==
    IF o.device_type.code = "K" THEN o.address
    ELSE DictGet(memory[o.device_type.code], o.address)

FirstOperand == OperandNow(ArithInst.operands[1])

SecondOperand ==
    IF ArithInst.type = "MOV" THEN 0 ELSE OperandNow(ArithInst.operands[2])

Destination == ArithInst.operands[Len(ArithInst.operands)]

\* v1 * v2 modulo 2^16, by the low and the high byte of v1
ProductMod16(v1, v2) ==
    ((((v1 % 256) * v2) % 65536) + ((((v1 \div 256) * v2) % 256) * 256)) % 65536

\* r is the exact result of the instruction reduced modulo 2^16
IsExact(type, r, v1, v2) ==
    /\ r \in 0..65535
    /\ CASE type = "MOV" -> r = v1
         [] type = "ADD" -> r = v1 + v2 \/ r = v1 + v2 - 65536
         [] type = "SUB" -> r = v1 - v2 \/ r = v1 - v2 + 65536
         [] type = "MUL" -> r = ProductMod16(v1, v2)
         [] type = "DIV" -> r = v1 \div v2

\* the logic current at the instruction (LD X0), and whether it takes effect
CurrentNow == get_bit(memory, DeviceX, 0)

TakesEffect == CurrentNow /\ ~(ArithInst.type = "DIV" /\ SecondOperand = 0)

\* the destination word after the scan
ResultWord == DictGet(memory'[Destination.device_type.code], Destination.address)

\* C30: in a scan of LD X0, <MOV|ADD|SUB|MUL|DIV>, OUT Y0 the destination word
\* becomes the exact result modulo 2^16 when X0 is on (and, for DIV, the divisor
\* is not 0); otherwise the destination keeps its value; every other device is
\* unchanged by the instruction, and the OUT that follows is executed either way.
C30_ArithmeticUnderCurrent ==
    [][scan_count' # scan_count =>
         /\ TakesEffect => IsExact(ArithInst.type, ResultWord, FirstOperand, SecondOperand)
         /\ memory' = set_bit(IF TakesEffect
                              THEN [memory EXCEPT ![Destination.device_type.code] =
                                       DictPut(@, Destination.address, ResultWord)]
                              ELSE memory,
                              DeviceY, 0, CurrentNow)]_vars

\* C30 witness: ADD D0 D1 D2 ran under X0 with D0 = 65535 and D1 = 2 and left
\* D2 = 1, and the OUT after it set Y0.
C30_Witness ==
    /\ ArithInst = Instruction("ADD", <<Device(DeviceD, 0), Device(DeviceD, 1), Device(DeviceD, 2)>>)
    /\ get_word(memory, DeviceD, 0) = 65535
    /\ get_word(memory, DeviceD, 1) = 2
    /\ get_word(memory, DeviceD, 2) = 1
    /\ get_bit(memory, DeviceY, 0)
    /\ scan_count > 0

(***************************************************************************)
(* C31                                                                     *)
(***************************************************************************)
\* <<X0, X1>> as the scan before read them; False before the first scan
InputsBefore == IF seen = <<>> THEN <<FALSE, FALSE>> ELSE seen[Len(seen)]

\* C31: after each scan of LD X0, PLS M0, LD X1, PLF M1 the bit M0 is on exactly
\* when X0 is on in this scan and was off in the scan before, and M1 is on exactly
\* when X1 is off in this scan and was on in the scan before; so each bit is on
\* for one scan per edge.
C31_PulseForOneScanPerEdge ==
    [][scan_count' # scan_count =>
         /\ get_bit(memory', DeviceM, 0) = (InputsNow[1] /\ ~InputsBefore[1])
         /\ get_bit(memory', DeviceM, 1) = (~InputsNow[2] /\ InputsBefore[2])]_vars

\* C31 witness: X0 has been on for more than one scan, so M0 is off again, and
\* the last scan saw X1 fall, so M1 is on.
C31_Witness ==
    /\ programs = <<PulseProgram>>
    /\ scan_count >= 3
    /\ get_bit(memory, DeviceX, 0)
    /\ Device(DeviceM, 0) \in prev_bits
    /\ ~get_bit(memory, DeviceM, 0)
    /\ get_bit(memory, DeviceM, 1)

(***************************************************************************)
(* C32                                                                     *)
(***************************************************************************)
\* a step is a scan of the timer program
TimerScan == scan_count' = scan_count + 1 /\ programs = <<create_sample_program_2>>

\* the timer and its devices are reset after the step
TimerResetAfter ==
    /\ timers' # None
    /\ ~timers'[1].is_running
    /\ ~timers'[1].contact
    /\ timers'[1].current_value = 0
    /\ ~get_bit(memory', DeviceTS, 0)
    /\ ~get_bit(memory', DeviceTC, 0)
    /\ get_word(memory', DeviceTN, 0) = 0

\* tenths of a second since the scans began to read X0 true, at most 20
TenthsHeld == Min((now - held_since'[1]) \div 100, 20)

\* C32: a scan of LD X0, OUT_T 0 20 that reads X0 false leaves the timer not
\* running with TS0 and TC0 false and TN0 = 0; a scan that reads X0 true leaves
\* TS0 true and the timer running, with TN0 counting from the scan at which X0
\* was first read true after the last reset, so TC0 needs the whole 2.0 s again.
C32_TimerResetOnFalseInput ==
    [][TimerScan =>
         IF ~InputsNow[1] THEN TimerResetAfter
         ELSE /\ get_bit(memory', DeviceTS, 0)
              /\ timers'[1].is_running
              /\ timers'[1].start_time = held_since'[1]
              /\ get_word(memory', DeviceTN, 0) = TenthsHeld
              /\ get_bit(memory', DeviceTC, 0) => now - held_since'[1] >= 2000]_vars

\* C32 witness: the timer was reset after it had run and was started again at a
\* later time; its contact has closed 2.0 s after that second start.
C32_Witness ==
    /\ programs = <<create_sample_program_2>>
    /\ held_since # None
    /\ held_since[1] > 0
    /\ timers # None /\ timers[1].start_time = held_since[1]
    /\ now - held_since[1] = 2000
    /\ get_bit(memory, DeviceTC, 0)
    /\ get_bit(memory, DeviceTS, 0)

(***************************************************************************)
(* C33                                                                     *)
(***************************************************************************)
\* C33: in a scan of sample program 3 (OUT_C 0 on X0, RST_C 0 on X1) the count of
\* C0 grows only if X0 is read true and was read false by the scan before, also
\* after a reset by RST_C.
C33_CountsOnlyOnRisingEdge ==
    [][(scan_count' = scan_count + 1 /\ programs = <<create_sample_program_3>>
          /\ CounterOf(counters').count > CounterOf(counters).count)
         => InputsNow[1] /\ ~InputsBefore[1]]_vars

(***************************************************************************)
(* C34                                                                     *)
(***************************************************************************)
\* a step in which a scan thread executes a scan
ScanExecuted ==
    \E t \in ThreadIds : scan_thread_pc[t] = "scan" /\ scan_thread_pc'[t] = "test"

\* C34: at most one scan thread of the engine is alive, however the start() and
\* stop() calls of the handler thread and of the GUI thread interleave, and no
\* scan is executed between the return of a stop() and the next start().
C34_SingleScanThread ==
    [][/\ Cardinality(LiveThreads') <= 1
       /\ ScanExecuted => ~engine_quiet]_vars

(***************************************************************************)
(* C35                                                                     *)
(***************************************************************************)
\* C35: the response a PLCClient call evaluates is the server's response to
\* the request that same call sent, also after an earlier call timed out and
\* its response arrived late
C35_ResponseOfSameCall ==
    client_response # None => client_response[1].answers = client_response[1].call

(***************************************************************************)
(* C36                                                                     *)
(***************************************************************************)
\* C36: the status or value a register command reports comes from an Ack
\* whose ack_id equals the req_id of that command, also after a timeout and
\* with Discovery-Acks still queued
C36_AckOfSameRequest ==
    ctl_result # None => ctl_result[1].ack_id = ctl_result[1].req_id

(***************************************************************************)
(* C37                                                                     *)
(***************************************************************************)
\* the device types with a given symbolic code
TypesOfCode(code) == {i \in 1..Len(DeviceTypes) : DeviceTypes[i].code = code}

\* a stored value fits the kind of the device type it is stored under
FitsKind(code, value) ==
    IF \E i \in TypesOfCode(code) : is_bit_device(DeviceTypes[i])
    THEN value \in {0, 1}
    ELSE value \in 0..65535

\* C37: every entry of the device store has an address inside the range of
\* its device type and a value of that type's kind: 0 or 1 for a bit device,
\* 0..65535 for a word device
C37_StoreEntriesFit ==
    \A code \in DOMAIN memory : \A address \in DOMAIN memory[code] :
        /\ device_ranges[code].min_address <= address
        /\ address <= device_ranges[code].max_address
        /\ FitsKind(code, memory[code][address])

(***************************************************************************)
(* C38                                                                     *)
(***************************************************************************)
\* the request handled last carries an unknown device code
UnknownCodeHandled ==
    \E kind \in CodeKinds, code \in UnknownCodes : request = CodeRequest(kind, code)

\* the server as it was before the request handled last
ServerBefore == ServerState(memory_before, state_before[1], state_before[2])

\* C38 as stated: a request with an unknown device code is answered with
\* 0xC050 and no data, and no device changes
C38_UnknownCodeRejected ==
    UnknownCodeHandled =>
        /\ parse_response(response, Q_SERIES) = Response(END_DEVICE_ERROR, <<>>)
        /\ memory = memory_before

\* C38 amended: a request with an unknown device code is answered, and
\* changes the store, exactly as the same request with the code of D
C38_UnknownCodeAsD ==
    \A kind \in CodeKinds, code \in UnknownCodes :
        request = CodeRequest(kind, code) =>
            /\ response = handle_request(ServerBefore, CodeRequest(kind, CodeOfD)).response
            /\ memory = handle_request(ServerBefore, CodeRequest(kind, CodeOfD)).sv.memory

\* a write with an unknown code has stored D0, and a read with an unknown code
\* has returned what D holds
C38_Witness ==
    /\ UnknownCodeHandled
    /\ handled = 2
    /\ get_word(memory, DeviceD, 0) = 500
    /\ request = CodeRequest("read_words", 255)
    /\ parse_response(response, Q_SERIES) = Response(END_OK, PackWords(<<500, 1>>))

(***************************************************************************)
(* C39                                                                     *)
(***************************************************************************)
\* the value of the HEARTBEAT_TIMEOUT register
LapseRegister == registers[BootstrapRegister.HEARTBEAT_TIMEOUT]

\* C39: the privilege is cleared by the heartbeat check only after more than
\* the value of register 0x0938 without a request, and a Read-Register of
\* 0x0938 returns that value
C39_LapseFollowsRegister ==
    [][/\ cleared' # cleared => now - last_heartbeat > LapseRegister
       /\ (gvcp_req' = LapseRead /\ gvcp_handled' # gvcp_handled)
            => acks' = <<Ack(GVCPStatus.SUCCESS, GVCPCommand.READREG_ACK, 259,
                             PackBE32(LapseRegister))>>]_vars

(***************************************************************************)
(* C40                                                                     *)
(***************************************************************************)
\* chunks of CHUNK_SIZE bytes that cover an image of the given length
ChunksOf(length) == (length + CHUNK_SIZE - 1) \div CHUNK_SIZE

\* C40: for every image size send_image sends one leader, a payload packet
\* for every chunk and one trailer, and the acquisition loop keeps running
C40_EveryBlockComplete ==
    /\ acq_pc # "dead"
    /\ (acq_pc = "loop" /\ srv_block_id > 0)
          => srv_sent = [leader |-> 1, payload |-> ChunksOf(srv_length), trailer |-> 1]

====
